---- MODULE Spec2Model ----
(***************************************************************************)
(* Scientific calculator and graph plotter (src/main.py).                  *)
(*                                                                         *)
(* Texts (the expression buffer, the display, the plot entry) are          *)
(* sequences of one-character strings.  Numbers are exact: a small         *)
(* rational ("num") or a decimal expansion kept digit by digit ("dec").    *)
(* The values of the transcendental library functions come from tables     *)
(* DegTable, UiTable and SympyTable computed with CPython's math module on  *)
(* the arguments the model uses; an argument outside the tables gives the  *)
(* value Beyond, on which every handler is disabled.                       *)
(***************************************************************************)
EXTENDS Integers, Sequences, FiniteSets, TLC

\* Operators call one another through Call, defined below with the operators
\* it dispatches to.
RECURSIVE Call(_, _)

\* ------------------------------------------------------------------ bounds
\* Largest numerator or denominator of an exact rational of the model.
MaxNum == 40000
\* Longest buffer a character button still appends to.
MaxLen == 3

\* --------------------------------------------------------------- constants
DefaultPrecision == 8
RoundDigits == 8
HalfTurn == 180
QuarterTurn == 90
\* the tolerance 1e-10 of _trig_tan / _trig_cot, as a number of decimal places
TolDigits == 10
NPoints == 400
LinspaceLo == -10
LinspaceHi == 10

\* -------------------------------------------------------------------- text
Digit == {"0", "1", "2", "3", "4", "5", "6", "7", "8", "9"}
Lower == {"a", "b", "c", "d", "e", "f", "g", "h", "i", "j", "k", "l", "m",
          "n", "o", "p", "q", "r", "s", "t", "u", "v", "w", "x", "y", "z"}
Upper == {"A", "B", "C", "D", "E", "F", "G", "H", "I", "J", "K", "L", "M",
          "N", "O", "P", "Q", "R", "S", "T", "U", "V", "W", "X", "Y", "Z"}
NameStart == Lower \cup Upper \cup {"_"}
NameChar == NameStart \cup Digit

DigitVal(c) ==
    CASE c = "0" -> 0 [] c = "1" -> 1 [] c = "2" -> 2 [] c = "3" -> 3
      [] c = "4" -> 4 [] c = "5" -> 5 [] c = "6" -> 6 [] c = "7" -> 7
      [] c = "8" -> 8 [] c = "9" -> 9

DigitChar(d) == <<"0", "1", "2", "3", "4", "5", "6", "7", "8", "9">>[d + 1]

\* s[i..j] as Python's s[i-1:j]: clipped to the text, empty when j < i
Slice(s, i, j) ==
    LET lo == IF i < 1 THEN 1 ELSE i
        hi == IF j > Len(s) THEN Len(s) ELSE j
    IN  IF hi < lo THEN <<>> ELSE SubSeq(s, lo, hi)
DropFirst(s, k) == Slice(s, k + 1, Len(s))
StartsWith(s, pre) == Len(s) >= Len(pre) /\ SubSeq(s, 1, Len(pre)) = pre

ERROR == <<"E", "R", "R", "O", "R">>
UNDEFINED == <<"U", "N", "D", "E", "F", "I", "N", "E", "D">>
NANTEXT == <<"n", "a", "n">>
INFTEXT == <<"i", "n", "f">>

\* the first position >= i of s whose character is not in set (Len(s)+1 if none)
RECURSIVE SkipWhile(_, _, _)
SkipWhile(s, i, set) ==
    IF i <= Len(s) /\ s[i] \in set THEN SkipWhile(s, i + 1, set) ELSE i

\* sequences of digit values
RECURSIVE ToDigitVals(_)
ToDigitVals(s) == IF s = <<>> THEN <<>> ELSE <<DigitVal(Head(s))>> \o ToDigitVals(Tail(s))
RECURSIVE ToDigitChars(_)
ToDigitChars(ds) == IF ds = <<>> THEN <<>> ELSE <<DigitChar(Head(ds))>> \o ToDigitChars(Tail(ds))
RECURSIVE StripLeadingZeros(_)
StripLeadingZeros(ds) ==
    IF ds # <<>> /\ Head(ds) = 0 THEN StripLeadingZeros(Tail(ds)) ELSE ds
RECURSIVE StripTrailingZeros(_)
StripTrailingZeros(ds) ==
    IF ds # <<>> /\ ds[Len(ds)] = 0 THEN StripTrailingZeros(Slice(ds, 1, Len(ds) - 1)) ELSE ds
AllZero(ds) == \A i \in DOMAIN ds : ds[i] = 0
RECURSIVE Zeros(_)
Zeros(k) == IF k <= 0 THEN <<>> ELSE <<0>> \o Zeros(k - 1)
\* the natural number a short digit sequence denotes
RECURSIVE DigitsToNat(_)
DigitsToNat(ds) == IF ds = <<>> THEN 0 ELSE 10 * DigitsToNat(Slice(ds, 1, Len(ds) - 1)) + ds[Len(ds)]
RECURSIVE NatToDigits(_)
NatToDigits(n) == IF n < 10 THEN <<n>> ELSE NatToDigits(n \div 10) \o <<n % 10>>
\* ds + 1 on a digit sequence, with carry (may grow by one digit)
RECURSIVE IncDigits(_)
IncDigits(ds) ==
    IF ds = <<>> THEN <<1>>
    ELSE IF ds[Len(ds)] < 9 THEN Slice(ds, 1, Len(ds) - 1) \o <<ds[Len(ds)] + 1>>
    ELSE IncDigits(Slice(ds, 1, Len(ds) - 1)) \o <<0>>
\* 10^k - 0.ds as fractional digits: the digits of 1 - 0.ds (ds not all zero)
RECURSIVE NinesComplement(_)
NinesComplement(ds) == IF ds = <<>> THEN <<>> ELSE <<9 - Head(ds)>> \o NinesComplement(Tail(ds))
OneMinusFrac(ds) ==
    LET t == StripTrailingZeros(ds)
        c == NinesComplement(t)
    IN  Slice(c, 1, Len(c) - 1) \o <<c[Len(c)] + 1>>

Abs(n) == IF n < 0 THEN -n ELSE n
RECURSIVE Gcd(_, _)
Gcd(a, b) == IF b = 0 THEN a ELSE Gcd(b, a % b)
RECURSIVE Pow10(_)
Pow10(k) == IF k <= 0 THEN 1 ELSE 10 * Pow10(k - 1)

\* ------------------------------------------------------------------ values
(***************************************************************************)
(* What sympify, float() and the math functions produce.                   *)
(*   num    the exact rational n/d (d > 0, lowest terms); flt: a Float     *)
(*   dec    (-1)^neg * (id . fd) digit by digit; flt: a Float              *)
(*   real   a finite float whose digits the model does not know            *)
(*   oo     +-infinity,  zoo  complex infinity,  nan                       *)
(*   cplx   a non-real number                                              *)
(*   sym    an expression with free symbols (hx: it contains x; un: it     *)
(*          contains a symbol or an undefined function other than x)       *)
(*   obj    a Python object that is no expression (a function, a tuple)    *)
(*   raise  the evaluation raised the exception exc                        *)
(*   beyond outside the bounds of the model                                *)
(***************************************************************************)
Val(kind) == [k |-> kind, n |-> 0, d |-> 1, flt |-> FALSE, neg |-> FALSE,
              id |-> <<>>, fd |-> <<>>, hx |-> FALSE, un |-> FALSE, exc |-> ""]
Beyond == Val("beyond")
Raise(e) == [Val("raise") EXCEPT !.exc = e]
Zoo == Val("zoo")
NaN == Val("nan")
Inf(neg) == [Val("oo") EXCEPT !.neg = neg]
Cplx == Val("cplx")
Obj == Val("obj")
Real == Val("real")
Sym(hx, un) == [Val("sym") EXCEPT !.hx = hx, !.un = un]
Dec(neg, id, fd, flt) ==
    [Val("dec") EXCEPT !.neg = neg, !.id = StripLeadingZeros(id),
                       !.fd = StripTrailingZeros(fd), !.flt = flt]
\* n/d in lowest terms; Beyond when it leaves the bound MaxNum
Num(n, d, flt) ==
    LET g == Gcd(Abs(n), d)
        nn == n \div g
        dd == d \div g
    IN  IF n = 0 THEN [Val("num") EXCEPT !.flt = flt]
        ELSE IF Abs(nn) > MaxNum \/ dd > MaxNum THEN Beyond
        ELSE [Val("num") EXCEPT !.n = nn, !.d = dd, !.flt = flt]
IntV(n) == Num(n, 1, FALSE)

IsNum(v) == v.k = "num"
IsInteger(v) == v.k = "num" /\ v.d = 1 /\ ~v.flt
IsZero(v) == (v.k = "num" /\ v.n = 0) \/ (v.k = "dec" /\ v.id = <<>> /\ v.fd = <<>>)
IsNegative(v) == (v.k = "num" /\ v.n < 0) \/ (v.k = "dec" /\ v.neg /\ ~IsZero(v))
IsPositive(v) == (v.k = "num" /\ v.n > 0) \/ (v.k = "dec" /\ ~v.neg /\ ~IsZero(v))
IsFinite(v) == v.k \in {"num", "dec", "real"}
Stops(v) == v.k \in {"raise", "beyond"}

\* The value of a decimal literal with integer digits it and fraction digits ft.
LiteralValue(it, ft, flt) ==
    LET id == StripLeadingZeros(ToDigitVals(it))
        fd == StripTrailingZeros(ToDigitVals(ft))
    IN  IF Len(id) + Len(fd) <= 8 /\ Len(fd) <= 4
        THEN LET v == Num(DigitsToNat(id \o fd), Pow10(Len(fd)), flt)
             IN  IF v.k = "beyond" THEN Dec(FALSE, id, fd, flt) ELSE v
        ELSE Dec(FALSE, id, fd, flt)

\* The decimal expansion of an exact rational whose expansion terminates within
\* four places; Beyond otherwise.
RECURSIVE FracDiv(_, _, _)
FracDiv(r, d, k) ==
    IF k = 0 THEN [ds |-> <<>>, r |-> r]
    ELSE LET rest == FracDiv((r * 10) % d, d, k - 1)
         IN  [ds |-> <<(r * 10) \div d>> \o rest.ds, r |-> rest.r]
NumToDec(v) ==
    LET q == Abs(v.n) \div v.d
        f == FracDiv(Abs(v.n) % v.d, v.d, 4)
    IN  IF f.r # 0 THEN Beyond ELSE Dec(v.n < 0, NatToDigits(q), f.ds, v.flt)
AsDec(v) == IF v.k = "num" THEN NumToDec(v) ELSE v

\* ---------------------------------------------------------------- Formatter
BEYONDTEXT == <<"?">>
RECURSIVE IsPow2(_)
IsPow2(d) == d = 1 \/ (d % 2 = 0 /\ IsPow2(d \div 2))

\* digits ds (the last p of them fractional) as text
PlaceText(neg, ds, p) ==
    LET full == IF Len(ds) <= p THEN Zeros(p + 1 - Len(ds)) \o ds ELSE ds
        ip == Slice(full, 1, Len(full) - p)
        fp == Slice(full, Len(full) - p + 1, Len(full))
    IN  (IF neg THEN <<"-">> ELSE <<>>) \o ToDigitChars(ip)
        \o (IF p = 0 THEN <<>> ELSE <<".">> \o ToDigitChars(fp))

\* f"{n/d:.{p}f}" of the float nearest n/d: correctly rounded, ties to even when
\* n/d is a float exactly (d a power of two).
FormatNum(n, d, p) ==
    LET q == Abs(n) \div d
        f == FracDiv(Abs(n) % d, d, p)
        ds == StripLeadingZeros(NatToDigits(q) \o f.ds)
        odd == ds # <<>> /\ ds[Len(ds)] % 2 = 1
        up == 2 * f.r > d \/ (2 * f.r = d /\ odd)
    IN  IF ~IsPow2(d) /\ (2 * f.r = d \/ p > 15) THEN BEYONDTEXT
        ELSE PlaceText(n < 0, IF up THEN IncDigits(ds) ELSE ds, p)

\* the same for a value known by its decimal expansion
FormatDec(neg, id, fd, p) ==
    LET keep == IF Len(fd) >= p THEN Slice(fd, 1, p) ELSE fd \o Zeros(p - Len(fd))
        rest == Slice(fd, p + 1, Len(fd))
        ds == StripLeadingZeros(id \o keep)
        tie == rest # <<>> /\ rest[1] = 5 /\ AllZero(Tail(rest))
        up == rest # <<>> /\ rest[1] >= 5
    IN  IF tie THEN BEYONDTEXT
        ELSE PlaceText(neg, IF up THEN IncDigits(ds) ELSE ds, p)

\* f"{result:.{precision}f}" (src/main.py:67) for a float result
Format(v, p) ==
    CASE v.k = "num" -> Call("FormatNum", <<v.n, v.d, p>>)
      [] v.k = "dec" -> Call("FormatDec", <<v.neg, v.id, v.fd, p>>)
      [] v.k = "nan" -> NANTEXT
      [] v.k = "oo" -> (IF v.neg THEN <<"-">> ELSE <<>>) \o INFTEXT
      [] OTHER -> BEYONDTEXT


\* ------------------------------------------------------- library functions
\* The decimal text of a number: the key of the tables.
CanonText(v) ==
    LET w == AsDec(v)
    IN  IF w.k # "dec" THEN BEYONDTEXT
        ELSE (IF w.neg THEN <<"-">> ELSE <<>>)
             \o (IF w.id = <<>> THEN <<"0">> ELSE ToDigitChars(w.id))
             \o (IF w.fd = <<>> THEN <<>> ELSE <<".">> \o ToDigitChars(w.fd))

\* rows <<function, argument text, sign, integer digits, fraction digits>>
TableRows(T, f, key) == {i \in DOMAIN T : T[i][1] = f /\ T[i][2] = key}
Lookup(T, f, v) ==
    LET rows == TableRows(T, f, Call("CanonText", <<v>>))
        r == T[CHOOSE i \in rows : TRUE]
    IN  IF rows = {} THEN Beyond ELSE Dec(r[3] = "-", r[4], r[5], TRUE)


\* ---------------------------------------------------------------- tables
\* ---- tabulated values
\* math.sin/cos/tan(math.radians(a)) and 1/math.tan(math.radians(a)): the shortest repr of
\* the float, for the arguments a of the model (src/main.py:397, 409, 428, 447)
DegTable == <<
    <<"sin", <<"0">>, "+", <<>>, <<>>>>,
    <<"cos", <<"0">>, "+", <<1>>, <<>>>>,
    <<"tan", <<"0">>, "+", <<>>, <<>>>>,
    <<"sin", <<"1">>, "+", <<>>, <<0, 1, 7, 4, 5, 2, 4, 0, 6, 4, 3, 7, 2, 8, 3, 5, 1>>>>,
    <<"cos", <<"1">>, "+", <<>>, <<9, 9, 9, 8, 4, 7, 6, 9, 5, 1, 5, 6, 3, 9, 1, 3>>>>,
    <<"tan", <<"1">>, "+", <<>>, <<0, 1, 7, 4, 5, 5, 0, 6, 4, 9, 2, 8, 2, 1, 7, 5, 8, 5>>>>,
    <<"cot", <<"1">>, "+", <<5, 7>>, <<2, 8, 9, 9, 6, 1, 6, 3, 0, 7, 5, 9, 4, 3>>>>,
    <<"sin", <<"2">>, "+", <<>>, <<0, 3, 4, 8, 9, 9, 4, 9, 6, 7, 0, 2, 5, 0, 0, 9, 7>>>>,
    <<"cos", <<"2">>, "+", <<>>, <<9, 9, 9, 3, 9, 0, 8, 2, 7, 0, 1, 9, 0, 9, 5, 8>>>>,
    <<"tan", <<"2">>, "+", <<>>, <<0, 3, 4, 9, 2, 0, 7, 6, 9, 4, 9, 1, 7, 4, 7, 7, 3>>>>,
    <<"cot", <<"2">>, "+", <<2, 8>>, <<6, 3, 6, 2, 5, 3, 2, 8, 2, 9, 1, 5, 6, 0, 4>>>>,
    <<"sin", <<"3">>, "+", <<>>, <<0, 5, 2, 3, 3, 5, 9, 5, 6, 2, 4, 2, 9, 4, 3, 8, 3, 5>>>>,
    <<"cos", <<"3">>, "+", <<>>, <<9, 9, 8, 6, 2, 9, 5, 3, 4, 7, 5, 4, 5, 7, 3, 8>>>>,
    <<"tan", <<"3">>, "+", <<>>, <<0, 5, 2, 4, 0, 7, 7, 7, 9, 2, 8, 3, 0, 4, 1, 2, 1>>>>,
    <<"cot", <<"3">>, "+", <<1, 9>>, <<0, 8, 1, 1, 3, 6, 6, 8, 7, 7, 2, 8, 2, 0, 8>>>>,
    <<"sin", <<"4">>, "+", <<>>, <<0, 6, 9, 7, 5, 6, 4, 7, 3, 7, 4, 4, 1, 2, 5, 3>>>>,
    <<"cos", <<"4">>, "+", <<>>, <<9, 9, 7, 5, 6, 4, 0, 5, 0, 2, 5, 9, 8, 2, 4, 2>>>>,
    <<"tan", <<"4">>, "+", <<>>, <<0, 6, 9, 9, 2, 6, 8, 1, 1, 9, 4, 3, 5, 1, 0, 4, 1>>>>,
    <<"cot", <<"4">>, "+", <<1, 4>>, <<3, 0, 0, 6, 6, 6, 2, 5, 6, 7, 1, 1, 9, 2, 8>>>>,
    <<"sin", <<"5">>, "+", <<>>, <<0, 8, 7, 1, 5, 5, 7, 4, 2, 7, 4, 7, 6, 5, 8, 1, 7>>>>,
    <<"cos", <<"5">>, "+", <<>>, <<9, 9, 6, 1, 9, 4, 6, 9, 8, 0, 9, 1, 7, 4, 5, 5>>>>,
    <<"tan", <<"5">>, "+", <<>>, <<0, 8, 7, 4, 8, 8, 6, 6, 3, 5, 2, 5, 9, 2, 4, 0, 1>>>>,
    <<"cot", <<"5">>, "+", <<1, 1>>, <<4, 3, 0, 0, 5, 2, 3, 0, 2, 7, 6, 1, 3, 4, 3>>>>,
    <<"sin", <<"8">>, "+", <<>>, <<1, 3, 9, 1, 7, 3, 1, 0, 0, 9, 6, 0, 0, 6, 5, 4, 4>>>>,
    <<"cos", <<"8">>, "+", <<>>, <<9, 9, 0, 2, 6, 8, 0, 6, 8, 7, 4, 1, 5, 7, 0, 4>>>>,
    <<"tan", <<"8">>, "+", <<>>, <<1, 4, 0, 5, 4, 0, 8, 3, 4, 7, 0, 2, 3, 9, 1, 4, 5>>>>,
    <<"cot", <<"8">>, "+", <<7>>, <<1, 1, 5, 3, 6, 9, 7, 2, 2, 3, 8, 4, 2, 0, 9>>>>,
    <<"sin", <<"9">>, "+", <<>>, <<1, 5, 6, 4, 3, 4, 4, 6, 5, 0, 4, 0, 2, 3, 0, 8, 7>>>>,
    <<"cos", <<"9">>, "+", <<>>, <<9, 8, 7, 6, 8, 8, 3, 4, 0, 5, 9, 5, 1, 3, 7, 8>>>>,
    <<"tan", <<"9">>, "+", <<>>, <<1, 5, 8, 3, 8, 4, 4, 4, 0, 3, 2, 4, 5, 3, 6, 2, 7>>>>,
    <<"cot", <<"9">>, "+", <<6>>, <<3, 1, 3, 7, 5, 1, 5, 1, 4, 6, 7, 5, 0, 4, 4>>>>,
    <<"sin", <<"-", "0">>, "-", <<>>, <<>>>>,
    <<"cos", <<"-", "0">>, "+", <<1>>, <<>>>>,
    <<"tan", <<"-", "0">>, "-", <<>>, <<>>>>,
    <<"sin", <<"-", "1">>, "-", <<>>, <<0, 1, 7, 4, 5, 2, 4, 0, 6, 4, 3, 7, 2, 8, 3, 5, 1>>>>,
    <<"cos", <<"-", "1">>, "+", <<>>, <<9, 9, 9, 8, 4, 7, 6, 9, 5, 1, 5, 6, 3, 9, 1, 3>>>>,
    <<"tan", <<"-", "1">>, "-", <<>>, <<0, 1, 7, 4, 5, 5, 0, 6, 4, 9, 2, 8, 2, 1, 7, 5, 8, 5>>>>,
    <<"cot", <<"-", "1">>, "-", <<5, 7>>, <<2, 8, 9, 9, 6, 1, 6, 3, 0, 7, 5, 9, 4, 3>>>>,
    <<"sin", <<"-", "2">>, "-", <<>>, <<0, 3, 4, 8, 9, 9, 4, 9, 6, 7, 0, 2, 5, 0, 0, 9, 7>>>>,
    <<"cos", <<"-", "2">>, "+", <<>>, <<9, 9, 9, 3, 9, 0, 8, 2, 7, 0, 1, 9, 0, 9, 5, 8>>>>,
    <<"tan", <<"-", "2">>, "-", <<>>, <<0, 3, 4, 9, 2, 0, 7, 6, 9, 4, 9, 1, 7, 4, 7, 7, 3>>>>,
    <<"cot", <<"-", "2">>, "-", <<2, 8>>, <<6, 3, 6, 2, 5, 3, 2, 8, 2, 9, 1, 5, 6, 0, 4>>>>,
    <<"sin", <<"-", "4">>, "-", <<>>, <<0, 6, 9, 7, 5, 6, 4, 7, 3, 7, 4, 4, 1, 2, 5, 3>>>>,
    <<"cos", <<"-", "4">>, "+", <<>>, <<9, 9, 7, 5, 6, 4, 0, 5, 0, 2, 5, 9, 8, 2, 4, 2>>>>,
    <<"tan", <<"-", "4">>, "-", <<>>, <<0, 6, 9, 9, 2, 6, 8, 1, 1, 9, 4, 3, 5, 1, 0, 4, 1>>>>,
    <<"cot", <<"-", "4">>, "-", <<1, 4>>, <<3, 0, 0, 6, 6, 6, 2, 5, 6, 7, 1, 1, 9, 2, 8>>>>,
    <<"sin", <<"-", "8">>, "-", <<>>, <<1, 3, 9, 1, 7, 3, 1, 0, 0, 9, 6, 0, 0, 6, 5, 4, 4>>>>,
    <<"cos", <<"-", "8">>, "+", <<>>, <<9, 9, 0, 2, 6, 8, 0, 6, 8, 7, 4, 1, 5, 7, 0, 4>>>>,
    <<"tan", <<"-", "8">>, "-", <<>>, <<1, 4, 0, 5, 4, 0, 8, 3, 4, 7, 0, 2, 3, 9, 1, 4, 5>>>>,
    <<"cot", <<"-", "8">>, "-", <<7>>, <<1, 1, 5, 3, 6, 9, 7, 2, 2, 3, 8, 4, 2, 0, 9>>>>,
    <<"sin", <<"1", "0">>, "+", <<>>, <<1, 7, 3, 6, 4, 8, 1, 7, 7, 6, 6, 6, 9, 3, 0, 3, 3>>>>,
    <<"cos", <<"1", "0">>, "+", <<>>, <<9, 8, 4, 8, 0, 7, 7, 5, 3, 0, 1, 2, 2, 0, 8>>>>,
    <<"tan", <<"1", "0">>, "+", <<>>, <<1, 7, 6, 3, 2, 6, 9, 8, 0, 7, 0, 8, 4, 6, 4, 9, 8>>>>,
    <<"cot", <<"1", "0">>, "+", <<5>>, <<6, 7, 1, 2, 8, 1, 8, 1, 9, 6, 1, 7, 7, 0, 9>>>>,
    <<"sin", <<"1", "2">>, "+", <<>>, <<2, 0, 7, 9, 1, 1, 6, 9, 0, 8, 1, 7, 7, 5, 9, 3, 4>>>>,
    <<"cos", <<"1", "2">>, "+", <<>>, <<9, 7, 8, 1, 4, 7, 6, 0, 0, 7, 3, 3, 8, 0, 5, 7>>>>,
    <<"tan", <<"1", "2">>, "+", <<>>, <<2, 1, 2, 5, 5, 6, 5, 6, 1, 6, 7, 0, 0, 2, 2, 1, 3>>>>,
    <<"cot", <<"1", "2">>, "+", <<4>>, <<7, 0, 4, 6, 3, 0, 1, 0, 9, 4, 7, 8, 4, 5, 5>>>>,
    <<"sin", <<"2", "0">>, "+", <<>>, <<3, 4, 2, 0, 2, 0, 1, 4, 3, 3, 2, 5, 6, 6, 8, 7>>>>,
    <<"cos", <<"2", "0">>, "+", <<>>, <<9, 3, 9, 6, 9, 2, 6, 2, 0, 7, 8, 5, 9, 0, 8, 4>>>>,
    <<"tan", <<"2", "0">>, "+", <<>>, <<3, 6, 3, 9, 7, 0, 2, 3, 4, 2, 6, 6, 2, 0, 2, 3, 4>>>>,
    <<"cot", <<"2", "0">>, "+", <<2>>, <<7, 4, 7, 4, 7, 7, 4, 1, 9, 4, 5, 4, 6, 2, 2, 5>>>>,
    <<"sin", <<"3", "0">>, "+", <<>>, <<4, 9, 9, 9, 9, 9, 9, 9, 9, 9, 9, 9, 9, 9, 9, 9, 4>>>>,
    <<"cos", <<"3", "0">>, "+", <<>>, <<8, 6, 6, 0, 2, 5, 4, 0, 3, 7, 8, 4, 4, 3, 8, 7>>>>,
    <<"tan", <<"3", "0">>, "+", <<>>, <<5, 7, 7, 3, 5, 0, 2, 6, 9, 1, 8, 9, 6, 2, 5, 7>>>>,
    <<"cot", <<"3", "0">>, "+", <<1>>, <<7, 3, 2, 0, 5, 0, 8, 0, 7, 5, 6, 8, 8, 7, 7, 4>>>>,
    <<"sin", <<"4", "5">>, "+", <<>>, <<7, 0, 7, 1, 0, 6, 7, 8, 1, 1, 8, 6, 5, 4, 7, 5>>>>,
    <<"cos", <<"4", "5">>, "+", <<>>, <<7, 0, 7, 1, 0, 6, 7, 8, 1, 1, 8, 6, 5, 4, 7, 6>>>>,
    <<"tan", <<"4", "5">>, "+", <<>>, <<9, 9, 9, 9, 9, 9, 9, 9, 9, 9, 9, 9, 9, 9, 9, 9>>>>,
    <<"cot", <<"4", "5">>, "+", <<1>>, <<0, 0, 0, 0, 0, 0, 0, 0, 0, 0, 0, 0, 0, 0, 0, 2>>>>,
    <<"sin", <<"6", "0">>, "+", <<>>, <<8, 6, 6, 0, 2, 5, 4, 0, 3, 7, 8, 4, 4, 3, 8, 6>>>>,
    <<"cos", <<"6", "0">>, "+", <<>>, <<5, 0, 0, 0, 0, 0, 0, 0, 0, 0, 0, 0, 0, 0, 0, 1>>>>,
    <<"tan", <<"6", "0">>, "+", <<1>>, <<7, 3, 2, 0, 5, 0, 8, 0, 7, 5, 6, 8, 8, 7, 6, 7>>>>,
    <<"cot", <<"6", "0">>, "+", <<>>, <<5, 7, 7, 3, 5, 0, 2, 6, 9, 1, 8, 9, 6, 2, 6>>>>,
    <<"sin", <<"9", "0">>, "+", <<1>>, <<>>>>,
    <<"cos", <<"9", "0">>, "+", <<>>, <<0, 0, 0, 0, 0, 0, 0, 0, 0, 0, 0, 0, 0, 0, 0, 0, 6, 1, 2, 3, 2, 3, 3, 9, 9, 5, 7, 3, 6, 7, 6, 6>>>>,
    <<"cot", <<"9", "0">>, "+", <<>>, <<0, 0, 0, 0, 0, 0, 0, 0, 0, 0, 0, 0, 0, 0, 0, 0, 6, 1, 2, 3, 2, 3, 3, 9, 9, 5, 7, 3, 6, 7, 6, 6>>>>,
    <<"sin", <<"-", "3", "0">>, "-", <<>>, <<4, 9, 9, 9, 9, 9, 9, 9, 9, 9, 9, 9, 9, 9, 9, 9, 4>>>>,
    <<"cos", <<"-", "3", "0">>, "+", <<>>, <<8, 6, 6, 0, 2, 5, 4, 0, 3, 7, 8, 4, 4, 3, 8, 7>>>>,
    <<"tan", <<"-", "3", "0">>, "-", <<>>, <<5, 7, 7, 3, 5, 0, 2, 6, 9, 1, 8, 9, 6, 2, 5, 7>>>>,
    <<"cot", <<"-", "3", "0">>, "-", <<1>>, <<7, 3, 2, 0, 5, 0, 8, 0, 7, 5, 6, 8, 8, 7, 7, 4>>>>,
    <<"sin", <<"-", "4", "5">>, "-", <<>>, <<7, 0, 7, 1, 0, 6, 7, 8, 1, 1, 8, 6, 5, 4, 7, 5>>>>,
    <<"cos", <<"-", "4", "5">>, "+", <<>>, <<7, 0, 7, 1, 0, 6, 7, 8, 1, 1, 8, 6, 5, 4, 7, 6>>>>,
    <<"tan", <<"-", "4", "5">>, "-", <<>>, <<9, 9, 9, 9, 9, 9, 9, 9, 9, 9, 9, 9, 9, 9, 9, 9>>>>,
    <<"cot", <<"-", "4", "5">>, "-", <<1>>, <<0, 0, 0, 0, 0, 0, 0, 0, 0, 0, 0, 0, 0, 0, 0, 2>>>>,
    <<"sin", <<"-", "9", "0">>, "-", <<1>>, <<>>>>,
    <<"cos", <<"-", "9", "0">>, "+", <<>>, <<0, 0, 0, 0, 0, 0, 0, 0, 0, 0, 0, 0, 0, 0, 0, 0, 6, 1, 2, 3, 2, 3, 3, 9, 9, 5, 7, 3, 6, 7, 6, 6>>>>,
    <<"cot", <<"-", "9", "0">>, "-", <<>>, <<0, 0, 0, 0, 0, 0, 0, 0, 0, 0, 0, 0, 0, 0, 0, 0, 6, 1, 2, 3, 2, 3, 3, 9, 9, 5, 7, 3, 6, 7, 6, 6>>>>,
    <<"sin", <<"0", ".", "1">>, "+", <<>>, <<0, 0, 1, 7, 4, 5, 3, 2, 8, 3, 6, 5, 8, 9, 8, 3, 0, 8, 8>>>>,
    <<"cos", <<"0", ".", "1">>, "+", <<>>, <<9, 9, 9, 9, 9, 8, 4, 7, 6, 9, 1, 3, 2, 8, 7, 7>>>>,
    <<"tan", <<"0", ".", "1">>, "+", <<>>, <<0, 0, 1, 7, 4, 5, 3, 3, 1, 0, 2, 4, 1, 8, 8, 8, 0, 0, 4>>>>,
    <<"cot", <<"0", ".", "1">>, "+", <<5, 7, 2>>, <<9, 5, 7, 2, 1, 3, 3, 5, 4, 2, 8, 7, 7>>>>,
    <<"sin", <<"0", ".", "2">>, "+", <<>>, <<0, 0, 3, 4, 9, 0, 6, 5, 1, 4, 1, 5, 2, 2, 3, 7, 3, 2>>>>,
    <<"cos", <<"0", ".", "2">>, "+", <<>>, <<9, 9, 9, 9, 9, 3, 9, 0, 7, 6, 5, 7, 7, 9, 0, 4>>>>,
    <<"tan", <<"0", ".", "2">>, "+", <<>>, <<0, 0, 3, 4, 9, 0, 6, 7, 2, 6, 8, 1, 5, 9, 6, 2, 5>>>>,
    <<"cot", <<"0", ".", "2">>, "+", <<2, 8, 6>>, <<4, 7, 7, 7, 3, 4, 0, 1, 1, 6, 3, 1, 8>>>>,
    <<"sin", <<"0", ".", "5">>, "+", <<>>, <<0, 0, 8, 7, 2, 6, 5, 3, 5, 4, 9, 8, 3, 7, 3, 9, 3, 5>>>>,
    <<"cos", <<"0", ".", "5">>, "+", <<>>, <<9, 9, 9, 9, 6, 1, 9, 2, 3, 0, 6, 4, 1, 7, 1, 3>>>>,
    <<"tan", <<"0", ".", "5">>, "+", <<>>, <<0, 0, 8, 7, 2, 6, 8, 6, 7, 7, 9, 0, 7, 5, 8, 7, 9>>>>,
    <<"cot", <<"0", ".", "5">>, "+", <<1, 1, 4>>, <<5, 8, 8, 6, 5, 0, 1, 2, 9, 3, 0, 9, 6, 1>>>>,
    <<"sin", <<"1", ".", "5">>, "+", <<>>, <<0, 2, 6, 1, 7, 6, 9, 4, 8, 3, 0, 7, 8, 7, 3, 1, 5, 3>>>>,
    <<"cos", <<"1", ".", "5">>, "+", <<>>, <<9, 9, 9, 6, 5, 7, 3, 2, 4, 9, 7, 5, 5, 5, 7, 3>>>>,
    <<"tan", <<"1", ".", "5">>, "+", <<>>, <<0, 2, 6, 1, 8, 5, 9, 2, 1, 5, 6, 9, 1, 8, 6, 9, 3>>>>,
    <<"cot", <<"1", ".", "5">>, "+", <<3, 8>>, <<1, 8, 8, 4, 5, 9, 2, 9, 7, 0, 2, 5, 6>>>>,
    <<"sin", <<"1", "0", "0">>, "+", <<>>, <<9, 8, 4, 8, 0, 7, 7, 5, 3, 0, 1, 2, 2, 0, 8>>>>,
    <<"cos", <<"1", "0", "0">>, "-", <<>>, <<1, 7, 3, 6, 4, 8, 1, 7, 7, 6, 6, 6, 9, 3, 0, 3>>>>,
    <<"tan", <<"1", "0", "0">>, "-", <<5>>, <<6, 7, 1, 2, 8, 1, 8, 1, 9, 6, 1, 7, 7, 1, 1>>>>,
    <<"cot", <<"1", "0", "0">>, "-", <<>>, <<1, 7, 6, 3, 2, 6, 9, 8, 0, 7, 0, 8, 4, 6, 4, 9, 2>>>>,
    <<"sin", <<"1", "8", "0">>, "+", <<>>, <<0, 0, 0, 0, 0, 0, 0, 0, 0, 0, 0, 0, 0, 0, 0, 1, 2, 2, 4, 6, 4, 6, 7, 9, 9, 1, 4, 7, 3, 5, 3, 2>>>>,
    <<"cos", <<"1", "8", "0">>, "-", <<1>>, <<>>>>,
    <<"tan", <<"1", "8", "0">>, "-", <<>>, <<0, 0, 0, 0, 0, 0, 0, 0, 0, 0, 0, 0, 0, 0, 0, 1, 2, 2, 4, 6, 4, 6, 7, 9, 9, 1, 4, 7, 3, 5, 3, 2>>>>,
    <<"sin", <<"2", ".", "5">>, "+", <<>>, <<0, 4, 3, 6, 1, 9, 3, 8, 7, 3, 6, 5, 3, 3, 6>>>>,
    <<"cos", <<"2", ".", "5">>, "+", <<>>, <<9, 9, 9, 0, 4, 8, 2, 2, 1, 5, 8, 1, 8, 5, 7, 8>>>>,
    <<"tan", <<"2", ".", "5">>, "+", <<>>, <<0, 4, 3, 6, 6, 0, 9, 4, 2, 9, 0, 8, 5, 1, 2, 0, 6>>>>,
    <<"cot", <<"2", ".", "5">>, "+", <<2, 2>>, <<9, 0, 3, 7, 6, 5, 5, 4, 8, 4, 3, 1, 2>>>>,
    <<"sin", <<"2", "7", "0">>, "-", <<1>>, <<>>>>,
    <<"cos", <<"2", "7", "0">>, "-", <<>>, <<0, 0, 0, 0, 0, 0, 0, 0, 0, 0, 0, 0, 0, 0, 0, 1, 8, 3, 6, 9, 7, 0, 1, 9, 8, 7, 2, 1, 0, 2, 9, 7>>>>,
    <<"cot", <<"2", "7", "0">>, "+", <<>>, <<0, 0, 0, 0, 0, 0, 0, 0, 0, 0, 0, 0, 0, 0, 0, 1, 8, 3, 6, 9, 7, 0, 1, 9, 8, 7, 2, 1, 0, 3>>>>,
    <<"sin", <<"3", "6", "0">>, "-", <<>>, <<0, 0, 0, 0, 0, 0, 0, 0, 0, 0, 0, 0, 0, 0, 0, 2, 4, 4, 9, 2, 9, 3, 5, 9, 8, 2, 9, 4, 7, 0, 6, 4>>>>,
    <<"cos", <<"3", "6", "0">>, "+", <<1>>, <<>>>>,
    <<"tan", <<"3", "6", "0">>, "-", <<>>, <<0, 0, 0, 0, 0, 0, 0, 0, 0, 0, 0, 0, 0, 0, 0, 2, 4, 4, 9, 2, 9, 3, 5, 9, 8, 2, 9, 4, 7, 0, 6, 4>>>>,
    <<"sin", <<"4", "5", "0">>, "+", <<1>>, <<>>>>,
    <<"cos", <<"4", "5", "0">>, "+", <<>>, <<0, 0, 0, 0, 0, 0, 0, 0, 0, 0, 0, 0, 0, 0, 0, 3, 0, 6, 1, 6, 1, 6, 9, 9, 7, 8, 6, 8, 3, 8, 3>>>>,
    <<"cot", <<"4", "5", "0">>, "+", <<>>, <<0, 0, 0, 0, 0, 0, 0, 0, 0, 0, 0, 0, 0, 0, 0, 3, 0, 6, 1, 6, 1, 6, 9, 9, 7, 8, 6, 8, 3, 8, 3>>>>,
    <<"sin", <<"-", "1", "8", "0">>, "-", <<>>, <<0, 0, 0, 0, 0, 0, 0, 0, 0, 0, 0, 0, 0, 0, 0, 1, 2, 2, 4, 6, 4, 6, 7, 9, 9, 1, 4, 7, 3, 5, 3, 2>>>>,
    <<"cos", <<"-", "1", "8", "0">>, "-", <<1>>, <<>>>>,
    <<"tan", <<"-", "1", "8", "0">>, "+", <<>>, <<0, 0, 0, 0, 0, 0, 0, 0, 0, 0, 0, 0, 0, 0, 0, 1, 2, 2, 4, 6, 4, 6, 7, 9, 9, 1, 4, 7, 3, 5, 3, 2>>>>,
    <<"sin", <<"-", "2", ".", "5">>, "-", <<>>, <<0, 4, 3, 6, 1, 9, 3, 8, 7, 3, 6, 5, 3, 3, 6>>>>,
    <<"cos", <<"-", "2", ".", "5">>, "+", <<>>, <<9, 9, 9, 0, 4, 8, 2, 2, 1, 5, 8, 1, 8, 5, 7, 8>>>>,
    <<"tan", <<"-", "2", ".", "5">>, "-", <<>>, <<0, 4, 3, 6, 6, 0, 9, 4, 2, 9, 0, 8, 5, 1, 2, 0, 6>>>>,
    <<"cot", <<"-", "2", ".", "5">>, "-", <<2, 2>>, <<9, 0, 3, 7, 6, 5, 5, 4, 8, 4, 3, 1, 2>>>>,
    <<"sin", <<"-", "2", "7", "0">>, "+", <<1>>, <<>>>>,
    <<"cos", <<"-", "2", "7", "0">>, "-", <<>>, <<0, 0, 0, 0, 0, 0, 0, 0, 0, 0, 0, 0, 0, 0, 0, 1, 8, 3, 6, 9, 7, 0, 1, 9, 8, 7, 2, 1, 0, 2, 9, 7>>>>,
    <<"cot", <<"-", "2", "7", "0">>, "-", <<>>, <<0, 0, 0, 0, 0, 0, 0, 0, 0, 0, 0, 0, 0, 0, 0, 1, 8, 3, 6, 9, 7, 0, 1, 9, 8, 7, 2, 1, 0, 3>>>>,
    <<"sin", <<"2", ".", "2", "5">>, "+", <<>>, <<0, 3, 9, 2, 5, 9, 8, 1, 5, 7, 5, 9, 0, 6, 8, 6, 1>>>>,
    <<"cos", <<"2", ".", "2", "5">>, "+", <<>>, <<9, 9, 9, 2, 2, 9, 0, 3, 6, 2, 4, 0, 7, 2, 2, 9>>>>,
    <<"tan", <<"2", ".", "2", "5">>, "+", <<>>, <<0, 3, 9, 2, 9, 0, 1, 0, 7, 0, 0, 7, 6, 6, 9, 6, 4>>>>,
    <<"cot", <<"2", ".", "2", "5">>, "+", <<2, 5>>, <<4, 5, 1, 6, 9, 9, 5, 7, 9, 3, 5, 7, 0, 8>>>>,
    <<"sin", <<"0", ".", "0", "0", "0", "0", "0", "0", "0", "0", "0", "1">>, "+", <<>>, <<0, 0, 0, 0, 0, 0, 0, 0, 0, 0, 0, 1, 7, 4, 5, 3, 2, 9, 2, 5, 1, 9, 9, 4, 3, 2, 9, 6>>>>,
    <<"cos", <<"0", ".", "0", "0", "0", "0", "0", "0", "0", "0", "0", "1">>, "+", <<1>>, <<>>>>,
    <<"tan", <<"0", ".", "0", "0", "0", "0", "0", "0", "0", "0", "0", "1">>, "+", <<>>, <<0, 0, 0, 0, 0, 0, 0, 0, 0, 0, 0, 1, 7, 4, 5, 3, 2, 9, 2, 5, 1, 9, 9, 4, 3, 2, 9, 6>>>>,
    <<"cot", <<"0", ".", "0", "0", "0", "0", "0", "0", "0", "0", "0", "1">>, "+", <<5, 7, 2, 9, 5, 7, 7, 9, 5, 1, 3, 0>>, <<8, 2, 3, 2>>>>,
    <<"sin", <<"0", ".", "0", "0", "0", "0", "0", "0", "0", "0", "0", "2">>, "+", <<>>, <<0, 0, 0, 0, 0, 0, 0, 0, 0, 0, 0, 3, 4, 9, 0, 6, 5, 8, 5, 0, 3, 9, 8, 8, 6, 5, 9>>>>,
    <<"cos", <<"0", ".", "0", "0", "0", "0", "0", "0", "0", "0", "0", "2">>, "+", <<1>>, <<>>>>,
    <<"tan", <<"0", ".", "0", "0", "0", "0", "0", "0", "0", "0", "0", "2">>, "+", <<>>, <<0, 0, 0, 0, 0, 0, 0, 0, 0, 0, 0, 3, 4, 9, 0, 6, 5, 8, 5, 0, 3, 9, 8, 8, 6, 5, 9>>>>,
    <<"cot", <<"0", ".", "0", "0", "0", "0", "0", "0", "0", "0", "0", "2">>, "+", <<2, 8, 6, 4, 7, 8, 8, 9, 7, 5, 6, 5>>, <<4, 1, 1, 6>>>>,
    <<"sin", <<"-", "0", ".", "0", "0", "0", "0", "0", "0", "0", "0", "0", "1">>, "-", <<>>, <<0, 0, 0, 0, 0, 0, 0, 0, 0, 0, 0, 1, 7, 4, 5, 3, 2, 9, 2, 5, 1, 9, 9, 4, 3, 2, 9, 6>>>>,
    <<"cos", <<"-", "0", ".", "0", "0", "0", "0", "0", "0", "0", "0", "0", "1">>, "+", <<1>>, <<>>>>,
    <<"tan", <<"-", "0", ".", "0", "0", "0", "0", "0", "0", "0", "0", "0", "1">>, "-", <<>>, <<0, 0, 0, 0, 0, 0, 0, 0, 0, 0, 0, 1, 7, 4, 5, 3, 2, 9, 2, 5, 1, 9, 9, 4, 3, 2, 9, 6>>>>,
    <<"cot", <<"-", "0", ".", "0", "0", "0", "0", "0", "0", "0", "0", "0", "1">>, "-", <<5, 7, 2, 9, 5, 7, 7, 9, 5, 1, 3, 0>>, <<8, 2, 3, 2>>>>,
    <<"sin", <<"0", ".", "0", "0", "0", "0", "0", "0", "0", "0", "0", "0", "5">>, "+", <<>>, <<0, 0, 0, 0, 0, 0, 0, 0, 0, 0, 0, 0, 8, 7, 2, 6, 6, 4, 6, 2, 5, 9, 9, 7, 1, 6, 4, 8>>>>,
    <<"cos", <<"0", ".", "0", "0", "0", "0", "0", "0", "0", "0", "0", "0", "5">>, "+", <<1>>, <<>>>>,
    <<"tan", <<"0", ".", "0", "0", "0", "0", "0", "0", "0", "0", "0", "0", "5">>, "+", <<>>, <<0, 0, 0, 0, 0, 0, 0, 0, 0, 0, 0, 0, 8, 7, 2, 6, 6, 4, 6, 2, 5, 9, 9, 7, 1, 6, 4, 8>>>>,
    <<"sin", <<"8", "9", ".", "9", "9", "9", "9", "9", "9", "9", "9", "9", "8">>, "+", <<1>>, <<>>>>,
    <<"cos", <<"8", "9", ".", "9", "9", "9", "9", "9", "9", "9", "9", "9", "8">>, "+", <<>>, <<0, 0, 0, 0, 0, 0, 0, 0, 0, 0, 0, 3, 4, 9, 0, 8, 2, 4, 4, 6, 6, 3, 6, 6, 3, 7, 4, 7>>>>,
    <<"tan", <<"8", "9", ".", "9", "9", "9", "9", "9", "9", "9", "9", "9", "8">>, "+", <<2, 8, 6, 4, 6, 5, 2, 7, 7, 6, 5, 4>>, <<2, 8, 0, 7, 6>>>>,
    <<"cot", <<"8", "9", ".", "9", "9", "9", "9", "9", "9", "9", "9", "9", "8">>, "+", <<>>, <<0, 0, 0, 0, 0, 0, 0, 0, 0, 0, 0, 3, 4, 9, 0, 8, 2, 4, 4, 6, 6, 3, 6, 6, 3, 7, 4, 7>>>>,
    <<"sin", <<"8", "9", ".", "9", "9", "9", "9", "9", "9", "9", "9", "9", "9">>, "+", <<1>>, <<>>>>,
    <<"cos", <<"8", "9", ".", "9", "9", "9", "9", "9", "9", "9", "9", "9", "9">>, "+", <<>>, <<0, 0, 0, 0, 0, 0, 0, 0, 0, 0, 0, 1, 7, 4, 5, 3, 3, 1, 8, 2, 7, 0, 5, 0, 7, 0, 3, 4>>>>,
    <<"tan", <<"8", "9", ".", "9", "9", "9", "9", "9", "9", "9", "9", "9", "9">>, "+", <<5, 7, 2, 9, 5, 6, 9, 4, 9, 7, 9, 0>>, <<9, 2, 8, 8>>>>,
    <<"cot", <<"8", "9", ".", "9", "9", "9", "9", "9", "9", "9", "9", "9", "9">>, "+", <<>>, <<0, 0, 0, 0, 0, 0, 0, 0, 0, 0, 0, 1, 7, 4, 5, 3, 3, 1, 8, 2, 7, 0, 5, 0, 7, 0, 3, 6>>>>,
    <<"sin", <<"9", "0", ".", "0", "0", "0", "0", "0", "0", "0", "0", "0", "1">>, "+", <<1>>, <<>>>>,
    <<"cos", <<"9", "0", ".", "0", "0", "0", "0", "0", "0", "0", "0", "0", "1">>, "-", <<>>, <<0, 0, 0, 0, 0, 0, 0, 0, 0, 0, 0, 1, 7, 4, 5, 4, 3, 1, 4, 0, 6, 9, 7, 5, 7, 1, 3, 8>>>>,
    <<"tan", <<"9", "0", ".", "0", "0", "0", "0", "0", "0", "0", "0", "0", "1">>, "-", <<5, 7, 2, 9, 2, 4, 2, 6, 1, 5, 9, 1>>, <<4, 0, 0, 5>>>>,
    <<"cot", <<"9", "0", ".", "0", "0", "0", "0", "0", "0", "0", "0", "0", "1">>, "-", <<>>, <<0, 0, 0, 0, 0, 0, 0, 0, 0, 0, 0, 1, 7, 4, 5, 4, 3, 1, 4, 0, 6, 9, 7, 5, 7, 1, 3, 6>>>>,
    <<"sin", <<"9", "0", ".", "0", "0", "0", "0", "0", "0", "0", "0", "0", "2">>, "+", <<1>>, <<>>>>,
    <<"cos", <<"9", "0", ".", "0", "0", "0", "0", "0", "0", "0", "0", "0", "2">>, "-", <<>>, <<0, 0, 0, 0, 0, 0, 0, 0, 0, 0, 0, 3, 4, 9, 0, 7, 0, 2, 0, 0, 1, 6, 8, 6, 4, 5, 9, 7>>>>,
    <<"tan", <<"9", "0", ".", "0", "0", "0", "0", "0", "0", "0", "0", "0", "2">>, "-", <<2, 8, 6, 4, 7, 5, 3, 2, 7, 7, 4, 6>>, <<9, 3, 1, 9, 5>>>>,
    <<"cot", <<"9", "0", ".", "0", "0", "0", "0", "0", "0", "0", "0", "0", "2">>, "-", <<>>, <<0, 0, 0, 0, 0, 0, 0, 0, 0, 0, 0, 3, 4, 9, 0, 7, 0, 2, 0, 0, 1, 6, 8, 6, 4, 6>>>>,
    <<"sin", <<"-", "0", ".", "0", "0", "0", "0", "0", "0", "0", "0", "0", "0", "5">>, "-", <<>>, <<0, 0, 0, 0, 0, 0, 0, 0, 0, 0, 0, 0, 8, 7, 2, 6, 6, 4, 6, 2, 5, 9, 9, 7, 1, 6, 4, 8>>>>,
    <<"cos", <<"-", "0", ".", "0", "0", "0", "0", "0", "0", "0", "0", "0", "0", "5">>, "+", <<1>>, <<>>>>,
    <<"tan", <<"-", "0", ".", "0", "0", "0", "0", "0", "0", "0", "0", "0", "0", "5">>, "-", <<>>, <<0, 0, 0, 0, 0, 0, 0, 0, 0, 0, 0, 0, 8, 7, 2, 6, 6, 4, 6, 2, 5, 9, 9, 7, 1, 6, 4, 8>>>>,
    <<"cot", <<"-", "0", ".", "0", "0", "0", "0", "0", "0", "0", "0", "0", "0", "5">>, "-", <<1, 1, 4, 5, 9, 1, 5, 5, 9, 0, 2, 6, 1>>, <<6, 4, 6, 5>>>>,
    <<"sin", <<"-", "8", "9", ".", "9", "9", "9", "9", "9", "9", "9", "9", "9", "9">>, "-", <<1>>, <<>>>>,
    <<"cos", <<"-", "8", "9", ".", "9", "9", "9", "9", "9", "9", "9", "9", "9", "9">>, "+", <<>>, <<0, 0, 0, 0, 0, 0, 0, 0, 0, 0, 0, 1, 7, 4, 5, 3, 3, 1, 8, 2, 7, 0, 5, 0, 7, 0, 3, 4>>>>,
    <<"tan", <<"-", "8", "9", ".", "9", "9", "9", "9", "9", "9", "9", "9", "9", "9">>, "-", <<5, 7, 2, 9, 5, 6, 9, 4, 9, 7, 9, 0>>, <<9, 2, 8, 8>>>>,
    <<"cot", <<"-", "8", "9", ".", "9", "9", "9", "9", "9", "9", "9", "9", "9", "9">>, "-", <<>>, <<0, 0, 0, 0, 0, 0, 0, 0, 0, 0, 0, 1, 7, 4, 5, 3, 3, 1, 8, 2, 7, 0, 5, 0, 7, 0, 3, 6>>>>,
    <<"sin", <<"-", "9", "0", ".", "0", "0", "0", "0", "0", "0", "0", "0", "0", "1">>, "-", <<1>>, <<>>>>,
    <<"cos", <<"-", "9", "0", ".", "0", "0", "0", "0", "0", "0", "0", "0", "0", "1">>, "-", <<>>, <<0, 0, 0, 0, 0, 0, 0, 0, 0, 0, 0, 1, 7, 4, 5, 4, 3, 1, 4, 0, 6, 9, 7, 5, 7, 1, 3, 8>>>>,
    <<"tan", <<"-", "9", "0", ".", "0", "0", "0", "0", "0", "0", "0", "0", "0", "1">>, "+", <<5, 7, 2, 9, 2, 4, 2, 6, 1, 5, 9, 1>>, <<4, 0, 0, 5>>>>,
    <<"cot", <<"-", "9", "0", ".", "0", "0", "0", "0", "0", "0", "0", "0", "0", "1">>, "+", <<>>, <<0, 0, 0, 0, 0, 0, 0, 0, 0, 0, 0, 1, 7, 4, 5, 4, 3, 1, 4, 0, 6, 9, 7, 5, 7, 1, 3, 6>>>>,
    <<"sin", <<"1", "7", "9", ".", "9", "9", "9", "9", "9", "9", "9", "9", "9", "9">>, "+", <<>>, <<0, 0, 0, 0, 0, 0, 0, 0, 0, 0, 0, 1, 7, 4, 4, 9, 4, 8, 9, 7, 0, 1, 8, 0, 8, 1, 0, 8>>>>,
    <<"cos", <<"1", "7", "9", ".", "9", "9", "9", "9", "9", "9", "9", "9", "9", "9">>, "-", <<1>>, <<>>>>,
    <<"tan", <<"1", "7", "9", ".", "9", "9", "9", "9", "9", "9", "9", "9", "9", "9">>, "-", <<>>, <<0, 0, 0, 0, 0, 0, 0, 0, 0, 0, 0, 1, 7, 4, 4, 9, 4, 8, 9, 7, 0, 1, 8, 0, 8, 1, 0, 8>>>>,
    <<"cot", <<"1", "7", "9", ".", "9", "9", "9", "9", "9", "9", "9", "9", "9", "9">>, "-", <<5, 7, 3, 0, 8, 2, 6, 6, 1, 4, 9, 2>>, <<6, 0, 5, 5>>>>,
    <<"sin", <<"1", "8", "0", ".", "0", "0", "0", "0", "0", "0", "0", "0", "0", "1">>, "-", <<>>, <<0, 0, 0, 0, 0, 0, 0, 0, 0, 0, 0, 1, 7, 4, 5, 1, 4, 8, 1, 3, 0, 0, 3, 0, 8, 3, 1, 3>>>>,
    <<"cos", <<"1", "8", "0", ".", "0", "0", "0", "0", "0", "0", "0", "0", "0", "1">>, "-", <<1>>, <<>>>>,
    <<"tan", <<"1", "8", "0", ".", "0", "0", "0", "0", "0", "0", "0", "0", "0", "1">>, "+", <<>>, <<0, 0, 0, 0, 0, 0, 0, 0, 0, 0, 0, 1, 7, 4, 5, 1, 4, 8, 1, 3, 0, 0, 3, 0, 8, 3, 1, 3>>>>,
    <<"sin", <<"2", "6", "9", ".", "9", "9", "9", "9", "9", "9", "9", "9", "9", "9">>, "-", <<1>>, <<>>>>,
    <<"cos", <<"2", "6", "9", ".", "9", "9", "9", "9", "9", "9", "9", "9", "9", "9">>, "-", <<>>, <<0, 0, 0, 0, 0, 0, 0, 0, 0, 0, 0, 1, 7, 4, 5, 4, 5, 4, 2, 9, 1, 7, 3, 0, 6, 1, 8, 1>>>>,
    <<"cot", <<"2", "6", "9", ".", "9", "9", "9", "9", "9", "9", "9", "9", "9", "9">>, "+", <<>>, <<0, 0, 0, 0, 0, 0, 0, 0, 0, 0, 0, 1, 7, 4, 5, 4, 5, 4, 2, 9, 1, 7, 3, 0, 6, 1, 8, 3>>>>,
    <<"sin", <<"2", "7", "0", ".", "0", "0", "0", "0", "0", "0", "0", "0", "0", "1">>, "-", <<1>>, <<>>>>,
    <<"cos", <<"2", "7", "0", ".", "0", "0", "0", "0", "0", "0", "0", "0", "0", "1">>, "+", <<>>, <<0, 0, 0, 0, 0, 0, 0, 0, 0, 0, 0, 1, 7, 4, 5, 0, 8, 6, 8, 9, 7, 6, 9, 0, 8, 7, 4>>>>,
    <<"cot", <<"2", "7", "0", ".", "0", "0", "0", "0", "0", "0", "0", "0", "0", "1">>, "-", <<>>, <<0, 0, 0, 0, 0, 0, 0, 0, 0, 0, 0, 1, 7, 4, 5, 0, 8, 6, 8, 9, 7, 6, 9, 0, 8, 7, 4>>>>,
    <<"sin", <<"8", "9", ".", "9", "9", "9", "9", "9", "9", "9", "9", "9", "9", "5">>, "+", <<1>>, <<>>>>,
    <<"cos", <<"8", "9", ".", "9", "9", "9", "9", "9", "9", "9", "9", "9", "9", "5">>, "+", <<>>, <<0, 0, 0, 0, 0, 0, 0, 0, 0, 0, 0, 0, 8, 7, 2, 4, 7, 4, 4, 8, 5, 0, 9, 0, 4, 0, 5, 4>>>>,
    <<"cot", <<"8", "9", ".", "9", "9", "9", "9", "9", "9", "9", "9", "9", "9", "5">>, "+", <<>>, <<0, 0, 0, 0, 0, 0, 0, 0, 0, 0, 0, 0, 8, 7, 2, 4, 7, 4, 4, 8, 5, 0, 9, 0, 4, 0, 5, 3>>>>,
    <<"sin", <<"9", "0", ".", "0", "0", "0", "0", "0", "0", "0", "0", "0", "0", "5">>, "+", <<1>>, <<>>>>,
    <<"cos", <<"9", "0", ".", "0", "0", "0", "0", "0", "0", "0", "0", "0", "0", "5">>, "-", <<>>, <<0, 0, 0, 0, 0, 0, 0, 0, 0, 0, 0, 0, 8, 7, 2, 5, 7, 4, 0, 6, 5, 0, 1, 5, 4, 1, 5, 7>>>>,
    <<"cot", <<"9", "0", ".", "0", "0", "0", "0", "0", "0", "0", "0", "0", "0", "5">>, "-", <<>>, <<0, 0, 0, 0, 0, 0, 0, 0, 0, 0, 0, 0, 8, 7, 2, 5, 7, 4, 0, 6, 5, 0, 1, 5, 4, 1, 5, 7>>>>,
    <<"sin", <<"-", "8", "9", ".", "9", "9", "9", "9", "9", "9", "9", "9", "9", "9", "5">>, "-", <<1>>, <<>>>>,
    <<"cos", <<"-", "8", "9", ".", "9", "9", "9", "9", "9", "9", "9", "9", "9", "9", "5">>, "+", <<>>, <<0, 0, 0, 0, 0, 0, 0, 0, 0, 0, 0, 0, 8, 7, 2, 4, 7, 4, 4, 8, 5, 0, 9, 0, 4, 0, 5, 4>>>>,
    <<"cot", <<"-", "8", "9", ".", "9", "9", "9", "9", "9", "9", "9", "9", "9", "9", "5">>, "-", <<>>, <<0, 0, 0, 0, 0, 0, 0, 0, 0, 0, 0, 0, 8, 7, 2, 4, 7, 4, 4, 8, 5, 0, 9, 0, 4, 0, 5, 3>>>>,
    <<"sin", <<"1", "7", "9", ".", "9", "9", "9", "9", "9", "9", "9", "9", "9", "9", "5">>, "+", <<>>, <<0, 0, 0, 0, 0, 0, 0, 0, 0, 0, 0, 0, 8, 7, 2, 7, 5, 7, 7, 6, 2, 0, 3, 5, 2, 8, 7, 8>>>>,
    <<"cos", <<"1", "7", "9", ".", "9", "9", "9", "9", "9", "9", "9", "9", "9", "9", "5">>, "-", <<1>>, <<>>>>,
    <<"tan", <<"1", "7", "9", ".", "9", "9", "9", "9", "9", "9", "9", "9", "9", "9", "5">>, "-", <<>>, <<0, 0, 0, 0, 0, 0, 0, 0, 0, 0, 0, 0, 8, 7, 2, 7, 5, 7, 7, 6, 2, 0, 3, 5, 2, 8, 7, 8>>>>,
    <<"cot", <<"1", "7", "9", ".", "9", "9", "9", "9", "9", "9", "9", "9", "9", "9", "5">>, "-", <<1, 1, 4, 5, 7, 9, 3, 3, 0, 4, 2, 8, 1>>, <<7, 9, 8, 6>>>>,
    <<"sin", <<"1", "8", "0", ".", "0", "0", "0", "0", "0", "0", "0", "0", "0", "0", "5">>, "-", <<>>, <<0, 0, 0, 0, 0, 0, 0, 0, 0, 0, 0, 0, 8, 7, 2, 5, 1, 2, 8, 3, 2, 6, 7, 5, 4, 5, 8, 3>>>>,
    <<"cos", <<"1", "8", "0", ".", "0", "0", "0", "0", "0", "0", "0", "0", "0", "0", "5">>, "-", <<1>>, <<>>>>,
    <<"tan", <<"1", "8", "0", ".", "0", "0", "0", "0", "0", "0", "0", "0", "0", "0", "5">>, "+", <<>>, <<0, 0, 0, 0, 0, 0, 0, 0, 0, 0, 0, 0, 8, 7, 2, 5, 1, 2, 8, 3, 2, 6, 7, 5, 4, 5, 8, 3>>>>,
    <<"sin", <<"2", "6", "9", ".", "9", "9", "9", "9", "9", "9", "9", "9", "9", "9", "5">>, "-", <<1>>, <<>>>>,
    <<"cos", <<"2", "6", "9", ".", "9", "9", "9", "9", "9", "9", "9", "9", "9", "9", "5">>, "-", <<>>, <<0, 0, 0, 0, 0, 0, 0, 0, 0, 0, 0, 0, 8, 7, 3, 2, 6, 3, 0, 8, 3, 5, 8, 5, 0, 9, 5, 2>>>>,
    <<"cot", <<"2", "6", "9", ".", "9", "9", "9", "9", "9", "9", "9", "9", "9", "9", "5">>, "+", <<>>, <<0, 0, 0, 0, 0, 0, 0, 0, 0, 0, 0, 0, 8, 7, 3, 2, 6, 3, 0, 8, 3, 5, 8, 5, 0, 9, 5, 1>>>>,
    <<"sin", <<"3", "5", "9", ".", "9", "9", "9", "9", "9", "9", "9", "9", "9", "9", "5">>, "-", <<>>, <<0, 0, 0, 0, 0, 0, 0, 0, 0, 0, 0, 0, 8, 7, 3, 3, 2, 4, 3, 1, 5, 9, 2, 5, 0, 5, 2, 6>>>>,
    <<"cos", <<"3", "5", "9", ".", "9", "9", "9", "9", "9", "9", "9", "9", "9", "9", "5">>, "+", <<1>>, <<>>>>,
    <<"tan", <<"3", "5", "9", ".", "9", "9", "9", "9", "9", "9", "9", "9", "9", "9", "5">>, "-", <<>>, <<0, 0, 0, 0, 0, 0, 0, 0, 0, 0, 0, 0, 8, 7, 3, 3, 2, 4, 3, 1, 5, 9, 2, 5, 0, 5, 2, 6>>>>,
    <<"cot", <<"3", "5", "9", ".", "9", "9", "9", "9", "9", "9", "9", "9", "9", "9", "5">>, "-", <<1, 1, 4, 5, 0, 4, 9, 9, 9, 0, 8, 9, 6>>, <<8, 7, 3, 8>>>>,
    <<"sin", <<"-", "1", "7", "9", ".", "9", "9", "9", "9", "9", "9", "9", "9", "9", "9", "5">>, "-", <<>>, <<0, 0, 0, 0, 0, 0, 0, 0, 0, 0, 0, 0, 8, 7, 2, 7, 5, 7, 7, 6, 2, 0, 3, 5, 2, 8, 7, 8>>>>,
    <<"cos", <<"-", "1", "7", "9", ".", "9", "9", "9", "9", "9", "9", "9", "9", "9", "9", "5">>, "-", <<1>>, <<>>>>,
    <<"tan", <<"-", "1", "7", "9", ".", "9", "9", "9", "9", "9", "9", "9", "9", "9", "9", "5">>, "+", <<>>, <<0, 0, 0, 0, 0, 0, 0, 0, 0, 0, 0, 0, 8, 7, 2, 7, 5, 7, 7, 6, 2, 0, 3, 5, 2, 8, 7, 8>>>>
>>

\* math.log10(v), math.log(v), math.exp(v) (src/main.py:472, 483, 495)
UiTable == <<
    <<"exp_ui", <<"0">>, "+", <<1>>, <<>>>>,
    <<"log10", <<"1">>, "+", <<>>, <<>>>>,
    <<"ln", <<"1">>, "+", <<>>, <<>>>>,
    <<"exp_ui", <<"1">>, "+", <<2>>, <<7, 1, 8, 2, 8, 1, 8, 2, 8, 4, 5, 9, 0, 4, 5>>>>,
    <<"log10", <<"2">>, "+", <<>>, <<3, 0, 1, 0, 2, 9, 9, 9, 5, 6, 6, 3, 9, 8, 1, 2>>>>,
    <<"ln", <<"2">>, "+", <<>>, <<6, 9, 3, 1, 4, 7, 1, 8, 0, 5, 5, 9, 9, 4, 5, 3>>>>,
    <<"exp_ui", <<"2">>, "+", <<7>>, <<3, 8, 9, 0, 5, 6, 0, 9, 8, 9, 3, 0, 6, 5>>>>,
    <<"log10", <<"3">>, "+", <<>>, <<4, 7, 7, 1, 2, 1, 2, 5, 4, 7, 1, 9, 6, 6, 2, 4, 4>>>>,
    <<"ln", <<"3">>, "+", <<1>>, <<0, 9, 8, 6, 1, 2, 2, 8, 8, 6, 6, 8, 1, 0, 9, 8>>>>,
    <<"exp_ui", <<"3">>, "+", <<2, 0>>, <<0, 8, 5, 5, 3, 6, 9, 2, 3, 1, 8, 7, 6, 6, 8>>>>,
    <<"log10", <<"4">>, "+", <<>>, <<6, 0, 2, 0, 5, 9, 9, 9, 1, 3, 2, 7, 9, 6, 2, 4>>>>,
    <<"ln", <<"4">>, "+", <<1>>, <<3, 8, 6, 2, 9, 4, 3, 6, 1, 1, 1, 9, 8, 9, 0, 6>>>>,
    <<"exp_ui", <<"4">>, "+", <<5, 4>>, <<5, 9, 8, 1, 5, 0, 0, 3, 3, 1, 4, 4, 2, 3, 6>>>>,
    <<"log10", <<"5">>, "+", <<>>, <<6, 9, 8, 9, 7, 0, 0, 0, 4, 3, 3, 6, 0, 1, 8, 9>>>>,
    <<"ln", <<"5">>, "+", <<1>>, <<6, 0, 9, 4, 3, 7, 9, 1, 2, 4, 3, 4, 1, 0, 0, 3>>>>,
    <<"exp_ui", <<"5">>, "+", <<1, 4, 8>>, <<4, 1, 3, 1, 5, 9, 1, 0, 2, 5, 7, 6, 6>>>>,
    <<"log10", <<"8">>, "+", <<>>, <<9, 0, 3, 0, 8, 9, 9, 8, 6, 9, 9, 1, 9, 4, 3, 5>>>>,
    <<"ln", <<"8">>, "+", <<2>>, <<0, 7, 9, 4, 4, 1, 5, 4, 1, 6, 7, 9, 8, 3, 5, 7>>>>,
    <<"exp_ui", <<"8">>, "+", <<2, 9, 8, 0>>, <<9, 5, 7, 9, 8, 7, 0, 4, 1, 7, 2, 8, 3>>>>,
    <<"log10", <<"9">>, "+", <<>>, <<9, 5, 4, 2, 4, 2, 5, 0, 9, 4, 3, 9, 3, 2, 4, 9>>>>,
    <<"ln", <<"9">>, "+", <<2>>, <<1, 9, 7, 2, 2, 4, 5, 7, 7, 3, 3, 6, 2, 1, 9, 6>>>>,
    <<"exp_ui", <<"9">>, "+", <<8, 1, 0, 3>>, <<0, 8, 3, 9, 2, 7, 5, 7, 5, 3, 8, 4>>>>,
    <<"exp_ui", <<"-", "0">>, "+", <<1>>, <<>>>>,
    <<"exp_ui", <<"-", "1">>, "+", <<>>, <<3, 6, 7, 8, 7, 9, 4, 4, 1, 1, 7, 1, 4, 4, 2, 3, 3>>>>,
    <<"exp_ui", <<"-", "2">>, "+", <<>>, <<1, 3, 5, 3, 3, 5, 2, 8, 3, 2, 3, 6, 6, 1, 2, 7>>>>,
    <<"exp_ui", <<"-", "4">>, "+", <<>>, <<0, 1, 8, 3, 1, 5, 6, 3, 8, 8, 8, 8, 7, 3, 4, 1, 8>>>>,
    <<"exp_ui", <<"-", "8">>, "+", <<>>, <<0, 0, 0, 3, 3, 5, 4, 6, 2, 6, 2, 7, 9, 0, 2, 5, 1, 1, 8, 5>>>>,
    <<"log10", <<"1", "0">>, "+", <<1>>, <<>>>>,
    <<"ln", <<"1", "0">>, "+", <<2>>, <<3, 0, 2, 5, 8, 5, 0, 9, 2, 9, 9, 4, 0, 4, 6>>>>,
    <<"exp_ui", <<"1", "0">>, "+", <<2, 2, 0, 2, 6>>, <<4, 6, 5, 7, 9, 4, 8, 0, 6, 7, 1, 8>>>>,
    <<"log10", <<"1", "2">>, "+", <<1>>, <<0, 7, 9, 1, 8, 1, 2, 4, 6, 0, 4, 7, 6, 2, 4, 9>>>>,
    <<"ln", <<"1", "2">>, "+", <<2>>, <<4, 8, 4, 9, 0, 6, 6, 4, 9, 7, 8, 8, 0, 0, 0, 4>>>>,
    <<"exp_ui", <<"1", "2">>, "+", <<1, 6, 2, 7, 5, 4>>, <<7, 9, 1, 4, 1, 9, 0, 0, 3, 9, 2>>>>,
    <<"log10", <<"2", "0">>, "+", <<1>>, <<3, 0, 1, 0, 2, 9, 9, 9, 5, 6, 6, 3, 9, 8, 1, 3>>>>,
    <<"ln", <<"2", "0">>, "+", <<2>>, <<9, 9, 5, 7, 3, 2, 2, 7, 3, 5, 5, 3, 9, 9, 1>>>>,
    <<"exp_ui", <<"2", "0">>, "+", <<4, 8, 5, 1, 6, 5, 1, 9, 5>>, <<4, 0, 9, 7, 9, 0, 3>>>>,
    <<"log10", <<"3", "0">>, "+", <<1>>, <<4, 7, 7, 1, 2, 1, 2, 5, 4, 7, 1, 9, 6, 6, 2, 4>>>>,
    <<"ln", <<"3", "0">>, "+", <<3>>, <<4, 0, 1, 1, 9, 7, 3, 8, 1, 6, 6, 2, 1, 5, 5, 5>>>>,
    <<"exp_ui", <<"3", "0">>, "+", <<1, 0, 6, 8, 6, 4, 7, 4, 5, 8, 1, 5, 2, 4>>, <<4, 6, 3>>>>,
    <<"log10", <<"4", "5">>, "+", <<1>>, <<6, 5, 3, 2, 1, 2, 5, 1, 3, 7, 7, 5, 3, 4, 3, 7>>>>,
    <<"ln", <<"4", "5">>, "+", <<3>>, <<8, 0, 6, 6, 6, 2, 4, 8, 9, 7, 7, 0, 3, 1, 9, 6>>>>,
    <<"log10", <<"6", "0">>, "+", <<1>>, <<7, 7, 8, 1, 5, 1, 2, 5, 0, 3, 8, 3, 6, 4, 3, 6>>>>,
    <<"ln", <<"6", "0">>, "+", <<4>>, <<0, 9, 4, 3, 4, 4, 5, 6, 2, 2, 2, 2, 1>>>>,
    <<"log10", <<"9", "0">>, "+", <<1>>, <<9, 5, 4, 2, 4, 2, 5, 0, 9, 4, 3, 9, 3, 2, 4, 8>>>>,
    <<"ln", <<"9", "0">>, "+", <<4>>, <<4, 9, 9, 8, 0, 9, 6, 7, 0, 3, 3, 0, 2, 6, 5>>>>,
    <<"exp_ui", <<"-", "3", "0">>, "+", <<>>, <<0, 0, 0, 0, 0, 0, 0, 0, 0, 0, 0, 0, 0, 9, 3, 5, 7, 6, 2, 2, 9, 6, 8, 8, 4, 0, 1, 7, 5>>>>,
    <<"log10", <<"0", ".", "1">>, "-", <<1>>, <<>>>>,
    <<"ln", <<"0", ".", "1">>, "-", <<2>>, <<3, 0, 2, 5, 8, 5, 0, 9, 2, 9, 9, 4, 0, 4, 5, 5>>>>,
    <<"exp_ui", <<"0", ".", "1">>, "+", <<1>>, <<1, 0, 5, 1, 7, 0, 9, 1, 8, 0, 7, 5, 6, 4, 7, 7>>>>,
    <<"log10", <<"0", ".", "2">>, "-", <<>>, <<6, 9, 8, 9, 7, 0, 0, 0, 4, 3, 3, 6, 0, 1, 8, 7>>>>,
    <<"ln", <<"0", ".", "2">>, "-", <<1>>, <<6, 0, 9, 4, 3, 7, 9, 1, 2, 4, 3, 4, 1, 0, 0, 3>>>>,
    <<"exp_ui", <<"0", ".", "2">>, "+", <<1>>, <<2, 2, 1, 4, 0, 2, 7, 5, 8, 1, 6, 0, 1, 6, 9, 9>>>>,
    <<"log10", <<"0", ".", "5">>, "-", <<>>, <<3, 0, 1, 0, 2, 9, 9, 9, 5, 6, 6, 3, 9, 8, 1, 2>>>>,
    <<"ln", <<"0", ".", "5">>, "-", <<>>, <<6, 9, 3, 1, 4, 7, 1, 8, 0, 5, 5, 9, 9, 4, 5, 3>>>>,
    <<"exp_ui", <<"0", ".", "5">>, "+", <<1>>, <<6, 4, 8, 7, 2, 1, 2, 7, 0, 7, 0, 0, 1, 2, 8, 2>>>>,
    <<"log10", <<"1", ".", "5">>, "+", <<>>, <<1, 7, 6, 0, 9, 1, 2, 5, 9, 0, 5, 5, 6, 8, 1, 2, 4>>>>,
    <<"ln", <<"1", ".", "5">>, "+", <<>>, <<4, 0, 5, 4, 6, 5, 1, 0, 8, 1, 0, 8, 1, 6, 4, 4>>>>,
    <<"exp_ui", <<"1", ".", "5">>, "+", <<4>>, <<4, 8, 1, 6, 8, 9, 0, 7, 0, 3, 3, 8, 0, 6, 4, 5>>>>,
    <<"log10", <<"1", "0", "0">>, "+", <<2>>, <<>>>>,
    <<"ln", <<"1", "0", "0">>, "+", <<4>>, <<6, 0, 5, 1, 7, 0, 1, 8, 5, 9, 8, 8, 0, 9, 2>>>>,
    <<"log10", <<"1", "8", "0">>, "+", <<2>>, <<2, 5, 5, 2, 7, 2, 5, 0, 5, 1, 0, 3, 3, 0, 6>>>>,
    <<"ln", <<"1", "8", "0">>, "+", <<5>>, <<1, 9, 2, 9, 5, 6, 8, 5, 0, 8, 9, 0, 2, 1>>>>,
    <<"log10", <<"2", ".", "5">>, "+", <<>>, <<3, 9, 7, 9, 4, 0, 0, 0, 8, 6, 7, 2, 0, 3, 7, 6>>>>,
    <<"ln", <<"2", ".", "5">>, "+", <<>>, <<9, 1, 6, 2, 9, 0, 7, 3, 1, 8, 7, 4, 1, 5, 5, 1>>>>,
    <<"exp_ui", <<"2", ".", "5">>, "+", <<1, 2>>, <<1, 8, 2, 4, 9, 3, 9, 6, 0, 7, 0, 3, 4, 7, 3>>>>,
    <<"log10", <<"2", "7", "0">>, "+", <<2>>, <<4, 3, 1, 3, 6, 3, 7, 6, 4, 1, 5, 8, 9, 8, 7, 4>>>>,
    <<"ln", <<"2", "7", "0">>, "+", <<5>>, <<5, 9, 8, 4, 2, 1, 9, 5, 8, 9, 9, 8, 3, 7, 5>>>>,
    <<"log10", <<"3", "6", "0">>, "+", <<2>>, <<5, 5, 6, 3, 0, 2, 5, 0, 0, 7, 6, 7, 2, 8, 7, 3>>>>,
    <<"ln", <<"3", "6", "0">>, "+", <<5>>, <<8, 8, 6, 1, 0, 4, 0, 3, 1, 4, 5, 0, 1, 5, 6>>>>,
    <<"log10", <<"4", "5", "0">>, "+", <<2>>, <<6, 5, 3, 2, 1, 2, 5, 1, 3, 7, 7, 5, 3, 4, 3, 5>>>>,
    <<"ln", <<"4", "5", "0">>, "+", <<6>>, <<1, 0, 9, 2, 4, 7, 5, 8, 2, 7, 6, 4, 3, 6, 5, 5>>>>,
    <<"exp_ui", <<"-", "2", ".", "5">>, "+", <<>>, <<0, 8, 2, 0, 8, 4, 9, 9, 8, 6, 2, 3, 8, 9, 8, 8>>>>,
    <<"log10", <<"2", ".", "2", "5">>, "+", <<>>, <<3, 5, 2, 1, 8, 2, 5, 1, 8, 1, 1, 1, 3, 6, 2, 5>>>>,
    <<"ln", <<"2", ".", "2", "5">>, "+", <<>>, <<8, 1, 0, 9, 3, 0, 2, 1, 6, 2, 1, 6, 3, 2, 8, 8>>>>,
    <<"exp_ui", <<"2", ".", "2", "5">>, "+", <<9>>, <<4, 8, 7, 7, 3, 5, 8, 3, 6, 3, 5, 8, 5, 2, 6>>>>,
    <<"log10", <<"0", ".", "0", "0", "0", "0", "0", "0", "0", "0", "0", "1">>, "-", <<1, 0>>, <<>>>>,
    <<"ln", <<"0", ".", "0", "0", "0", "0", "0", "0", "0", "0", "0", "1">>, "-", <<2, 3>>, <<0, 2, 5, 8, 5, 0, 9, 2, 9, 9, 4, 0, 4, 5, 7>>>>,
    <<"exp_ui", <<"0", ".", "0", "0", "0", "0", "0", "0", "0", "0", "0", "1">>, "+", <<1>>, <<0, 0, 0, 0, 0, 0, 0, 0, 0, 1>>>>,
    <<"log10", <<"0", ".", "0", "0", "0", "0", "0", "0", "0", "0", "0", "2">>, "-", <<9>>, <<6, 9, 8, 9, 7, 0, 0, 0, 4, 3, 3, 6, 0, 1, 9>>>>,
    <<"ln", <<"0", ".", "0", "0", "0", "0", "0", "0", "0", "0", "0", "2">>, "-", <<2, 2>>, <<3, 3, 2, 7, 0, 3, 7, 4, 9, 3, 8, 0, 5, 1>>>>,
    <<"exp_ui", <<"0", ".", "0", "0", "0", "0", "0", "0", "0", "0", "0", "2">>, "+", <<1>>, <<0, 0, 0, 0, 0, 0, 0, 0, 0, 2>>>>,
    <<"exp_ui", <<"-", "0", ".", "0", "0", "0", "0", "0", "0", "0", "0", "0", "1">>, "+", <<>>, <<9, 9, 9, 9, 9, 9, 9, 9, 9, 9>>>>,
    <<"log10", <<"0", ".", "0", "0", "0", "0", "0", "0", "0", "0", "0", "0", "5">>, "-", <<1, 0>>, <<3, 0, 1, 0, 2, 9, 9, 9, 5, 6, 6, 3, 9, 8, 1>>>>,
    <<"ln", <<"0", ".", "0", "0", "0", "0", "0", "0", "0", "0", "0", "0", "5">>, "-", <<2, 3>>, <<7, 1, 8, 9, 9, 8, 1, 1, 0, 5, 0, 0, 4>>>>,
    <<"exp_ui", <<"0", ".", "0", "0", "0", "0", "0", "0", "0", "0", "0", "0", "5">>, "+", <<1>>, <<0, 0, 0, 0, 0, 0, 0, 0, 0, 0, 5>>>>,
    <<"log10", <<"8", "9", ".", "9", "9", "9", "9", "9", "9", "9", "9", "9", "8">>, "+", <<1>>, <<9, 5, 4, 2, 4, 2, 5, 0, 9, 4, 3, 8, 3, 5, 9, 8>>>>,
    <<"ln", <<"8", "9", ".", "9", "9", "9", "9", "9", "9", "9", "9", "9", "8">>, "+", <<4>>, <<4, 9, 9, 8, 0, 9, 6, 7, 0, 3, 2, 8, 0, 4, 3>>>>,
    <<"log10", <<"8", "9", ".", "9", "9", "9", "9", "9", "9", "9", "9", "9", "9">>, "+", <<1>>, <<9, 5, 4, 2, 4, 2, 5, 0, 9, 4, 3, 8, 8, 4, 2, 3>>>>,
    <<"ln", <<"8", "9", ".", "9", "9", "9", "9", "9", "9", "9", "9", "9", "9">>, "+", <<4>>, <<4, 9, 9, 8, 0, 9, 6, 7, 0, 3, 2, 9, 1, 5, 4>>>>,
    <<"log10", <<"9", "0", ".", "0", "0", "0", "0", "0", "0", "0", "0", "0", "1">>, "+", <<1>>, <<9, 5, 4, 2, 4, 2, 5, 0, 9, 4, 3, 9, 8, 0, 7, 5>>>>,
    <<"ln", <<"9", "0", ".", "0", "0", "0", "0", "0", "0", "0", "0", "0", "1">>, "+", <<4>>, <<4, 9, 9, 8, 0, 9, 6, 7, 0, 3, 3, 1, 3, 7, 6>>>>,
    <<"log10", <<"9", "0", ".", "0", "0", "0", "0", "0", "0", "0", "0", "0", "2">>, "+", <<1>>, <<9, 5, 4, 2, 4, 2, 5, 0, 9, 4, 4, 0, 2, 9>>>>,
    <<"ln", <<"9", "0", ".", "0", "0", "0", "0", "0", "0", "0", "0", "0", "2">>, "+", <<4>>, <<4, 9, 9, 8, 0, 9, 6, 7, 0, 3, 3, 2, 4, 8, 7>>>>,
    <<"exp_ui", <<"-", "0", ".", "0", "0", "0", "0", "0", "0", "0", "0", "0", "0", "5">>, "+", <<>>, <<9, 9, 9, 9, 9, 9, 9, 9, 9, 9, 5>>>>,
    <<"log10", <<"1", "7", "9", ".", "9", "9", "9", "9", "9", "9", "9", "9", "9", "9">>, "+", <<2>>, <<2, 5, 5, 2, 7, 2, 5, 0, 5, 1, 0, 3, 0, 6, 5>>>>,
    <<"ln", <<"1", "7", "9", ".", "9", "9", "9", "9", "9", "9", "9", "9", "9", "9">>, "+", <<5>>, <<1, 9, 2, 9, 5, 6, 8, 5, 0, 8, 8, 9, 6, 5, 5>>>>,
    <<"log10", <<"1", "8", "0", ".", "0", "0", "0", "0", "0", "0", "0", "0", "0", "1">>, "+", <<2>>, <<2, 5, 5, 2, 7, 2, 5, 0, 5, 1, 0, 3, 5, 4, 7>>>>,
    <<"ln", <<"1", "8", "0", ".", "0", "0", "0", "0", "0", "0", "0", "0", "0", "1">>, "+", <<5>>, <<1, 9, 2, 9, 5, 6, 8, 5, 0, 8, 9, 0, 7, 6, 5, 5>>>>,
    <<"log10", <<"2", "6", "9", ".", "9", "9", "9", "9", "9", "9", "9", "9", "9", "9">>, "+", <<2>>, <<4, 3, 1, 3, 6, 3, 7, 6, 4, 1, 5, 8, 8, 2, 6, 6>>>>,
    <<"ln", <<"2", "6", "9", ".", "9", "9", "9", "9", "9", "9", "9", "9", "9", "9">>, "+", <<5>>, <<5, 9, 8, 4, 2, 1, 9, 5, 8, 9, 9, 8, 0, 0, 5>>>>,
    <<"log10", <<"2", "7", "0", ".", "0", "0", "0", "0", "0", "0", "0", "0", "0", "1">>, "+", <<2>>, <<4, 3, 1, 3, 6, 3, 7, 6, 4, 1, 5, 9, 1, 4, 8>>>>,
    <<"ln", <<"2", "7", "0", ".", "0", "0", "0", "0", "0", "0", "0", "0", "0", "1">>, "+", <<5>>, <<5, 9, 8, 4, 2, 1, 9, 5, 8, 9, 9, 8, 7, 4, 5>>>>,
    <<"log10", <<"8", "9", ".", "9", "9", "9", "9", "9", "9", "9", "9", "9", "9", "5">>, "+", <<1>>, <<9, 5, 4, 2, 4, 2, 5, 0, 9, 4, 3, 9, 0, 8, 3, 6>>>>,
    <<"ln", <<"8", "9", ".", "9", "9", "9", "9", "9", "9", "9", "9", "9", "9", "5">>, "+", <<4>>, <<4, 9, 9, 8, 0, 9, 6, 7, 0, 3, 2, 9, 7, 1>>>>,
    <<"log10", <<"9", "0", ".", "0", "0", "0", "0", "0", "0", "0", "0", "0", "0", "5">>, "+", <<1>>, <<9, 5, 4, 2, 4, 2, 5, 0, 9, 4, 3, 9, 5, 6, 6, 1>>>>,
    <<"ln", <<"9", "0", ".", "0", "0", "0", "0", "0", "0", "0", "0", "0", "0", "5">>, "+", <<4>>, <<4, 9, 9, 8, 0, 9, 6, 7, 0, 3, 3, 0, 8, 2>>>>,
    <<"log10", <<"1", "7", "9", ".", "9", "9", "9", "9", "9", "9", "9", "9", "9", "9", "5">>, "+", <<2>>, <<2, 5, 5, 2, 7, 2, 5, 0, 5, 1, 0, 3, 1, 8, 5, 7>>>>,
    <<"ln", <<"1", "7", "9", ".", "9", "9", "9", "9", "9", "9", "9", "9", "9", "9", "5">>, "+", <<5>>, <<1, 9, 2, 9, 5, 6, 8, 5, 0, 8, 8, 9, 9, 3, 2>>>>,
    <<"log10", <<"1", "8", "0", ".", "0", "0", "0", "0", "0", "0", "0", "0", "0", "0", "5">>, "+", <<2>>, <<2, 5, 5, 2, 7, 2, 5, 0, 5, 1, 0, 3, 4, 2, 7>>>>,
    <<"ln", <<"1", "8", "0", ".", "0", "0", "0", "0", "0", "0", "0", "0", "0", "0", "5">>, "+", <<5>>, <<1, 9, 2, 9, 5, 6, 8, 5, 0, 8, 9, 0, 4, 8, 8>>>>,
    <<"log10", <<"2", "6", "9", ".", "9", "9", "9", "9", "9", "9", "9", "9", "9", "9", "5">>, "+", <<2>>, <<4, 3, 1, 3, 6, 3, 7, 6, 4, 1, 5, 8, 9, 0, 7>>>>,
    <<"ln", <<"2", "6", "9", ".", "9", "9", "9", "9", "9", "9", "9", "9", "9", "9", "5">>, "+", <<5>>, <<5, 9, 8, 4, 2, 1, 9, 5, 8, 9, 9, 8, 1, 8, 9>>>>,
    <<"log10", <<"3", "5", "9", ".", "9", "9", "9", "9", "9", "9", "9", "9", "9", "9", "5">>, "+", <<2>>, <<5, 5, 6, 3, 0, 2, 5, 0, 0, 7, 6, 7, 2, 2, 7>>>>,
    <<"ln", <<"3", "5", "9", ".", "9", "9", "9", "9", "9", "9", "9", "9", "9", "9", "5">>, "+", <<5>>, <<8, 8, 6, 1, 0, 4, 0, 3, 1, 4, 5, 0, 0, 1, 6>>>>
>>

\* float(f(a).evalf()) for sympy's sin, cos, tan, cot, sinh, exp, log, sqrt, a**(1/3),
\* factorial (src/main.py:66)
SympyTable == <<
    <<"sin", <<"1">>, "+", <<>>, <<8, 4, 1, 4, 7, 0, 9, 8, 4, 8, 0, 7, 8, 9, 6, 5>>>>,
    <<"cos", <<"1">>, "+", <<>>, <<5, 4, 0, 3, 0, 2, 3, 0, 5, 8, 6, 8, 1, 3, 9, 8>>>>,
    <<"tan", <<"1">>, "+", <<1>>, <<5, 5, 7, 4, 0, 7, 7, 2, 4, 6, 5, 4, 9, 0, 2, 3>>>>,
    <<"cot", <<"1">>, "+", <<>>, <<6, 4, 2, 0, 9, 2, 6, 1, 5, 9, 3, 4, 3, 3, 0, 6>>>>,
    <<"sinh", <<"1">>, "+", <<1>>, <<1, 7, 5, 2, 0, 1, 1, 9, 3, 6, 4, 3, 8, 0, 1, 4>>>>,
    <<"exp", <<"1">>, "+", <<2>>, <<7, 1, 8, 2, 8, 1, 8, 2, 8, 4, 5, 9, 0, 4, 5>>>>,
    <<"factorial", <<"1">>, "+", <<1>>, <<>>>>,
    <<"sin", <<"2">>, "+", <<>>, <<9, 0, 9, 2, 9, 7, 4, 2, 6, 8, 2, 5, 6, 8, 1, 7>>>>,
    <<"cos", <<"2">>, "-", <<>>, <<4, 1, 6, 1, 4, 6, 8, 3, 6, 5, 4, 7, 1, 4, 2, 4>>>>,
    <<"tan", <<"2">>, "-", <<2>>, <<1, 8, 5, 0, 3, 9, 8, 6, 3, 2, 6, 1, 5, 1, 9>>>>,
    <<"cot", <<"2">>, "-", <<>>, <<4, 5, 7, 6, 5, 7, 5, 5, 4, 3, 6, 0, 2, 8, 5, 7, 7>>>>,
    <<"sinh", <<"2">>, "+", <<3>>, <<6, 2, 6, 8, 6, 0, 4, 0, 7, 8, 4, 7, 0, 1, 9>>>>,
    <<"exp", <<"2">>, "+", <<7>>, <<3, 8, 9, 0, 5, 6, 0, 9, 8, 9, 3, 0, 6, 5>>>>,
    <<"log", <<"2">>, "+", <<>>, <<6, 9, 3, 1, 4, 7, 1, 8, 0, 5, 5, 9, 9, 4, 5, 3>>>>,
    <<"sqrt", <<"2">>, "+", <<1>>, <<4, 1, 4, 2, 1, 3, 5, 6, 2, 3, 7, 3, 0, 9, 5, 1>>>>,
    <<"cbrt", <<"2">>, "+", <<1>>, <<2, 5, 9, 9, 2, 1, 0, 4, 9, 8, 9, 4, 8, 7, 3, 2>>>>,
    <<"factorial", <<"2">>, "+", <<2>>, <<>>>>,
    <<"sin", <<"3">>, "+", <<>>, <<1, 4, 1, 1, 2, 0, 0, 0, 8, 0, 5, 9, 8, 6, 7, 2>>>>,
    <<"cos", <<"3">>, "-", <<>>, <<9, 8, 9, 9, 9, 2, 4, 9, 6, 6, 0, 0, 4, 4, 5, 4>>>>,
    <<"tan", <<"3">>, "-", <<>>, <<1, 4, 2, 5, 4, 6, 5, 4, 3, 0, 7, 4, 2, 7, 7, 8>>>>,
    <<"cot", <<"3">>, "-", <<7>>, <<0, 1, 5, 2, 5, 2, 5, 5, 1, 4, 3, 4, 5, 3, 4>>>>,
    <<"sinh", <<"3">>, "+", <<1, 0>>, <<0, 1, 7, 8, 7, 4, 9, 2, 7, 4, 0, 9, 9, 0, 3>>>>,
    <<"exp", <<"3">>, "+", <<2, 0>>, <<0, 8, 5, 5, 3, 6, 9, 2, 3, 1, 8, 7, 6, 6, 8>>>>,
    <<"log", <<"3">>, "+", <<1>>, <<0, 9, 8, 6, 1, 2, 2, 8, 8, 6, 6, 8, 1, 0, 9, 8>>>>,
    <<"sqrt", <<"3">>, "+", <<1>>, <<7, 3, 2, 0, 5, 0, 8, 0, 7, 5, 6, 8, 8, 7, 7, 2>>>>,
    <<"cbrt", <<"3">>, "+", <<1>>, <<4, 4, 2, 2, 4, 9, 5, 7, 0, 3, 0, 7, 4, 0, 8, 3>>>>,
    <<"factorial", <<"3">>, "+", <<6>>, <<>>>>,
    <<"sin", <<"4">>, "-", <<>>, <<7, 5, 6, 8, 0, 2, 4, 9, 5, 3, 0, 7, 9, 2, 8, 2>>>>,
    <<"cos", <<"4">>, "-", <<>>, <<6, 5, 3, 6, 4, 3, 6, 2, 0, 8, 6, 3, 6, 1, 1, 9>>>>,
    <<"tan", <<"4">>, "+", <<1>>, <<1, 5, 7, 8, 2, 1, 2, 8, 2, 3, 4, 9, 5, 7, 7, 5>>>>,
    <<"cot", <<"4">>, "+", <<>>, <<8, 6, 3, 6, 9, 1, 1, 5, 4, 4, 5, 0, 6, 1, 6, 7>>>>,
    <<"sinh", <<"4">>, "+", <<2, 7>>, <<2, 8, 9, 9, 1, 7, 1, 9, 7, 1, 2, 7, 7, 5>>>>,
    <<"exp", <<"4">>, "+", <<5, 4>>, <<5, 9, 8, 1, 5, 0, 0, 3, 3, 1, 4, 4, 2, 3, 6>>>>,
    <<"log", <<"4">>, "+", <<1>>, <<3, 8, 6, 2, 9, 4, 3, 6, 1, 1, 1, 9, 8, 9, 0, 6>>>>,
    <<"cbrt", <<"4">>, "+", <<1>>, <<5, 8, 7, 4, 0, 1, 0, 5, 1, 9, 6, 8, 1, 9, 9, 4>>>>,
    <<"factorial", <<"4">>, "+", <<2, 4>>, <<>>>>,
    <<"sin", <<"5">>, "-", <<>>, <<9, 5, 8, 9, 2, 4, 2, 7, 4, 6, 6, 3, 1, 3, 8, 5>>>>,
    <<"cos", <<"5">>, "+", <<>>, <<2, 8, 3, 6, 6, 2, 1, 8, 5, 4, 6, 3, 2, 2, 6, 2, 5>>>>,
    <<"tan", <<"5">>, "-", <<3>>, <<3, 8, 0, 5, 1, 5, 0, 0, 6, 2, 4, 6, 5, 8, 6>>>>,
    <<"cot", <<"5">>, "-", <<>>, <<2, 9, 5, 8, 1, 2, 9, 1, 5, 5, 3, 2, 7, 4, 5, 5>>>>,
    <<"sinh", <<"5">>, "+", <<7, 4>>, <<2, 0, 3, 2, 1, 0, 5, 7, 7, 7, 8, 8, 7, 5>>>>,
    <<"exp", <<"5">>, "+", <<1, 4, 8>>, <<4, 1, 3, 1, 5, 9, 1, 0, 2, 5, 7, 6, 6>>>>,
    <<"log", <<"5">>, "+", <<1>>, <<6, 0, 9, 4, 3, 7, 9, 1, 2, 4, 3, 4, 1, 0, 0, 3>>>>,
    <<"sqrt", <<"5">>, "+", <<2>>, <<2, 3, 6, 0, 6, 7, 9, 7, 7, 4, 9, 9, 7, 9>>>>,
    <<"cbrt", <<"5">>, "+", <<1>>, <<7, 0, 9, 9, 7, 5, 9, 4, 6, 6, 7, 6, 6, 9, 6, 8>>>>,
    <<"factorial", <<"5">>, "+", <<1, 2, 0>>, <<>>>>,
    <<"sin", <<"8">>, "+", <<>>, <<9, 8, 9, 3, 5, 8, 2, 4, 6, 6, 2, 3, 3, 8, 1, 8>>>>,
    <<"cos", <<"8">>, "-", <<>>, <<1, 4, 5, 5, 0, 0, 0, 3, 3, 8, 0, 8, 6, 1, 3, 5, 4>>>>,
    <<"tan", <<"8">>, "-", <<6>>, <<7, 9, 9, 7, 1, 1, 4, 5, 5, 2, 2, 0, 3, 7, 9>>>>,
    <<"cot", <<"8">>, "-", <<>>, <<1, 4, 7, 0, 6, 5, 0, 6, 3, 9, 4, 9, 4, 8, 0, 5>>>>,
    <<"sinh", <<"8">>, "+", <<1, 4, 9, 0>>, <<4, 7, 8, 8, 2, 5, 7, 8, 9, 5, 5, 0, 2>>>>,
    <<"exp", <<"8">>, "+", <<2, 9, 8, 0>>, <<9, 5, 7, 9, 8, 7, 0, 4, 1, 7, 2, 8, 3>>>>,
    <<"log", <<"8">>, "+", <<2>>, <<0, 7, 9, 4, 4, 1, 5, 4, 1, 6, 7, 9, 8, 3, 5, 7>>>>,
    <<"sqrt", <<"8">>, "+", <<2>>, <<8, 2, 8, 4, 2, 7, 1, 2, 4, 7, 4, 6, 1, 9, 0, 3>>>>,
    <<"factorial", <<"8">>, "+", <<4, 0, 3, 2, 0>>, <<>>>>,
    <<"sin", <<"9">>, "+", <<>>, <<4, 1, 2, 1, 1, 8, 4, 8, 5, 2, 4, 1, 7, 5, 6, 6>>>>,
    <<"cos", <<"9">>, "-", <<>>, <<9, 1, 1, 1, 3, 0, 2, 6, 1, 8, 8, 4, 6, 7, 6, 9>>>>,
    <<"tan", <<"9">>, "-", <<>>, <<4, 5, 2, 3, 1, 5, 6, 5, 9, 4, 4, 1, 8, 0, 9, 8, 5>>>>,
    <<"cot", <<"9">>, "-", <<2>>, <<2, 1, 0, 8, 4, 5, 4, 1, 0, 9, 9, 9, 1, 9, 5>>>>,
    <<"sinh", <<"9">>, "+", <<4, 0, 5, 1>>, <<5, 4, 1, 9, 0, 2, 0, 8, 2, 7, 9>>>>,
    <<"exp", <<"9">>, "+", <<8, 1, 0, 3>>, <<0, 8, 3, 9, 2, 7, 5, 7, 5, 3, 8, 4>>>>,
    <<"log", <<"9">>, "+", <<2>>, <<1, 9, 7, 2, 2, 4, 5, 7, 7, 3, 3, 6, 2, 1, 9, 6>>>>,
    <<"cbrt", <<"9">>, "+", <<2>>, <<0, 8, 0, 0, 8, 3, 8, 2, 3, 0, 5, 1, 9, 0, 4>>>>,
    <<"factorial", <<"9">>, "+", <<3, 6, 2, 8, 8, 0>>, <<>>>>,
    <<"sin", <<"1", "0">>, "-", <<>>, <<5, 4, 4, 0, 2, 1, 1, 1, 0, 8, 8, 9, 3, 6, 9, 8>>>>,
    <<"cos", <<"1", "0">>, "-", <<>>, <<8, 3, 9, 0, 7, 1, 5, 2, 9, 0, 7, 6, 4, 5, 2, 4>>>>,
    <<"tan", <<"1", "0">>, "+", <<>>, <<6, 4, 8, 3, 6, 0, 8, 2, 7, 4, 5, 9, 0, 8, 6, 6>>>>,
    <<"cot", <<"1", "0">>, "+", <<1>>, <<5, 4, 2, 3, 5, 1, 0, 4, 5, 3, 5, 6, 9, 2, 0, 2>>>>,
    <<"sinh", <<"1", "0">>, "+", <<1, 1, 0, 1, 3>>, <<2, 3, 2, 8, 7, 4, 7, 0, 3, 3, 9, 3>>>>,
    <<"exp", <<"1", "0">>, "+", <<2, 2, 0, 2, 6>>, <<4, 6, 5, 7, 9, 4, 8, 0, 6, 7, 1, 8>>>>,
    <<"log", <<"1", "0">>, "+", <<2>>, <<3, 0, 2, 5, 8, 5, 0, 9, 2, 9, 9, 4, 0, 4, 6>>>>,
    <<"sqrt", <<"1", "0">>, "+", <<3>>, <<1, 6, 2, 2, 7, 7, 6, 6, 0, 1, 6, 8, 3, 7, 9, 5>>>>,
    <<"cbrt", <<"1", "0">>, "+", <<2>>, <<1, 5, 4, 4, 3, 4, 6, 9, 0, 0, 3, 1, 8, 8, 4>>>>,
    <<"factorial", <<"1", "0">>, "+", <<3, 6, 2, 8, 8, 0, 0>>, <<>>>>,
    <<"sin", <<"1", "2">>, "-", <<>>, <<5, 3, 6, 5, 7, 2, 9, 1, 8, 0, 0, 0, 4, 3, 4, 9>>>>,
    <<"cos", <<"1", "2">>, "+", <<>>, <<8, 4, 3, 8, 5, 3, 9, 5, 8, 7, 3, 2, 4, 9, 2, 1>>>>,
    <<"tan", <<"1", "2">>, "-", <<>>, <<6, 3, 5, 8, 5, 9, 9, 2, 8, 6, 6, 1, 5, 8, 0, 8>>>>,
    <<"cot", <<"1", "2">>, "-", <<1>>, <<5, 7, 2, 6, 7, 3, 4, 0, 6, 3, 9, 7, 6, 8, 9, 3>>>>,
    <<"sinh", <<"1", "2">>, "+", <<8, 1, 3, 7, 7>>, <<3, 9, 5, 7, 0, 6, 4, 2, 9, 8, 4>>>>,
    <<"exp", <<"1", "2">>, "+", <<1, 6, 2, 7, 5, 4>>, <<7, 9, 1, 4, 1, 9, 0, 0, 3, 9, 2>>>>,
    <<"log", <<"1", "2">>, "+", <<2>>, <<4, 8, 4, 9, 0, 6, 6, 4, 9, 7, 8, 8, 0, 0, 0, 4>>>>,
    <<"sqrt", <<"1", "2">>, "+", <<3>>, <<4, 6, 4, 1, 0, 1, 6, 1, 5, 1, 3, 7, 7, 5, 4, 4>>>>,
    <<"cbrt", <<"1", "2">>, "+", <<2>>, <<2, 8, 9, 4, 2, 8, 4, 8, 5, 1, 0, 6, 6, 6, 3, 7>>>>,
    <<"factorial", <<"1", "2">>, "+", <<4, 7, 9, 0, 0, 1, 6, 0, 0>>, <<>>>>,
    <<"sin", <<"3", "0">>, "-", <<>>, <<9, 8, 8, 0, 3, 1, 6, 2, 4, 0, 9, 2, 8, 6, 1, 8>>>>,
    <<"cos", <<"3", "0">>, "+", <<>>, <<1, 5, 4, 2, 5, 1, 4, 4, 9, 8, 8, 7, 5, 8, 4, 0, 5>>>>,
    <<"tan", <<"3", "0">>, "-", <<6>>, <<4, 0, 5, 3, 3, 1, 1, 9, 6, 6, 4, 6, 2, 7, 6>>>>,
    <<"cot", <<"3", "0">>, "-", <<>>, <<1, 5, 6, 1, 1, 9, 9, 5, 2, 1, 6, 1, 6, 5, 9, 2, 2>>>>,
    <<"log", <<"3", "0">>, "+", <<3>>, <<4, 0, 1, 1, 9, 7, 3, 8, 1, 6, 6, 2, 1, 5, 5, 5>>>>,
    <<"sqrt", <<"3", "0">>, "+", <<5>>, <<4, 7, 7, 2, 2, 5, 5, 7, 5, 0, 5, 1, 6, 6, 1>>>>,
    <<"cbrt", <<"3", "0">>, "+", <<3>>, <<1, 0, 7, 2, 3, 2, 5, 0, 5, 9, 5, 3, 8, 5, 8, 6>>>>,
    <<"sin", <<"4", "5">>, "+", <<>>, <<8, 5, 0, 9, 0, 3, 5, 2, 4, 5, 3, 4, 1, 1, 8, 4>>>>,
    <<"cos", <<"4", "5">>, "+", <<>>, <<5, 2, 5, 3, 2, 1, 9, 8, 8, 8, 1, 7, 7, 2, 9, 7>>>>,
    <<"tan", <<"4", "5">>, "+", <<1>>, <<6, 1, 9, 7, 7, 5, 1, 9, 0, 5, 4, 3, 8, 6, 1, 5>>>>,
    <<"cot", <<"4", "5">>, "+", <<>>, <<6, 1, 7, 3, 6, 9, 6, 2, 3, 7, 8, 3, 5, 5, 5, 1>>>>,
    <<"log", <<"4", "5">>, "+", <<3>>, <<8, 0, 6, 6, 6, 2, 4, 8, 9, 7, 7, 0, 3, 1, 9, 6>>>>,
    <<"sqrt", <<"4", "5">>, "+", <<6>>, <<7, 0, 8, 2, 0, 3, 9, 3, 2, 4, 9, 9, 3, 6, 9>>>>,
    <<"cbrt", <<"4", "5">>, "+", <<3>>, <<5, 5, 6, 8, 9, 3, 3, 0, 4, 4, 9, 0, 0, 6, 2, 6>>>>,
    <<"sin", <<"6", "0">>, "-", <<>>, <<3, 0, 4, 8, 1, 0, 6, 2, 1, 1, 0, 2, 2, 1, 6, 7>>>>,
    <<"cos", <<"6", "0">>, "-", <<>>, <<9, 5, 2, 4, 1, 2, 9, 8, 0, 4, 1, 5, 1, 5, 6, 3>>>>,
    <<"tan", <<"6", "0">>, "+", <<>>, <<3, 2, 0, 0, 4, 0, 3, 8, 9, 3, 7, 9, 5, 6, 3>>>>,
    <<"cot", <<"6", "0">>, "+", <<3>>, <<1, 2, 4, 6, 0, 5, 6, 2, 2, 2, 4, 2, 3, 0, 8>>>>,
    <<"log", <<"6", "0">>, "+", <<4>>, <<0, 9, 4, 3, 4, 4, 5, 6, 2, 2, 2, 2, 1>>>>,
    <<"sqrt", <<"6", "0">>, "+", <<7>>, <<7, 4, 5, 9, 6, 6, 6, 9, 2, 4, 1, 4, 8, 3, 4>>>>,
    <<"cbrt", <<"6", "0">>, "+", <<3>>, <<9, 1, 4, 8, 6, 7, 6, 4, 1, 1, 6, 8, 8, 6, 3, 4>>>>,
    <<"sin", <<"9", "0">>, "+", <<>>, <<8, 9, 3, 9, 9, 6, 6, 6, 3, 6, 0, 0, 5, 5, 7, 9>>>>,
    <<"cos", <<"9", "0">>, "-", <<>>, <<4, 4, 8, 0, 7, 3, 6, 1, 6, 1, 2, 9, 1, 7, 0, 1>>>>,
    <<"tan", <<"9", "0">>, "-", <<1>>, <<9, 9, 5, 2, 0, 0, 4, 1, 2, 2, 0, 8, 2, 4, 2>>>>,
    <<"cot", <<"9", "0">>, "-", <<>>, <<5, 0, 1, 2, 0, 2, 7, 8, 3, 3, 8, 0, 1, 5, 3, 2>>>>,
    <<"log", <<"9", "0">>, "+", <<4>>, <<4, 9, 9, 8, 0, 9, 6, 7, 0, 3, 3, 0, 2, 6, 5>>>>,
    <<"sqrt", <<"9", "0">>, "+", <<9>>, <<4, 8, 6, 8, 3, 2, 9, 8, 0, 5, 0, 5, 1, 3, 8>>>>,
    <<"cbrt", <<"9", "0">>, "+", <<4>>, <<4, 8, 1, 4, 0, 4, 7, 4, 6, 5, 5, 7, 1, 6, 4>>>>,
    <<"sin", <<"1", "0", "0">>, "-", <<>>, <<5, 0, 6, 3, 6, 5, 6, 4, 1, 1, 0, 9, 7, 5, 8, 8>>>>,
    <<"cos", <<"1", "0", "0">>, "+", <<>>, <<8, 6, 2, 3, 1, 8, 8, 7, 2, 2, 8, 7, 6, 8, 3, 9>>>>,
    <<"tan", <<"1", "0", "0">>, "-", <<>>, <<5, 8, 7, 2, 1, 3, 9, 1, 5, 1, 5, 6, 9, 2, 9, 1>>>>,
    <<"cot", <<"1", "0", "0">>, "-", <<1>>, <<7, 0, 2, 9, 5, 6, 9, 1, 9, 4, 2, 6, 4, 6, 9>>>>,
    <<"log", <<"1", "0", "0">>, "+", <<4>>, <<6, 0, 5, 1, 7, 0, 1, 8, 5, 9, 8, 8, 0, 9, 2>>>>,
    <<"cbrt", <<"1", "0", "0">>, "+", <<4>>, <<6, 4, 1, 5, 8, 8, 8, 3, 3, 6, 1, 2, 7, 7, 8>>>>,
    <<"sin", <<"-", "1">>, "-", <<>>, <<8, 4, 1, 4, 7, 0, 9, 8, 4, 8, 0, 7, 8, 9, 6, 5>>>>,
    <<"cos", <<"-", "1">>, "+", <<>>, <<5, 4, 0, 3, 0, 2, 3, 0, 5, 8, 6, 8, 1, 3, 9, 8>>>>,
    <<"tan", <<"-", "1">>, "-", <<1>>, <<5, 5, 7, 4, 0, 7, 7, 2, 4, 6, 5, 4, 9, 0, 2, 3>>>>,
    <<"cot", <<"-", "1">>, "-", <<>>, <<6, 4, 2, 0, 9, 2, 6, 1, 5, 9, 3, 4, 3, 3, 0, 6>>>>,
    <<"sinh", <<"-", "1">>, "-", <<1>>, <<1, 7, 5, 2, 0, 1, 1, 9, 3, 6, 4, 3, 8, 0, 1, 4>>>>,
    <<"exp", <<"-", "1">>, "+", <<>>, <<3, 6, 7, 8, 7, 9, 4, 4, 1, 1, 7, 1, 4, 4, 2, 3, 3>>>>,
    <<"sin", <<"-", "2">>, "-", <<>>, <<9, 0, 9, 2, 9, 7, 4, 2, 6, 8, 2, 5, 6, 8, 1, 7>>>>,
    <<"cos", <<"-", "2">>, "-", <<>>, <<4, 1, 6, 1, 4, 6, 8, 3, 6, 5, 4, 7, 1, 4, 2, 4>>>>,
    <<"tan", <<"-", "2">>, "+", <<2>>, <<1, 8, 5, 0, 3, 9, 8, 6, 3, 2, 6, 1, 5, 1, 9>>>>,
    <<"cot", <<"-", "2">>, "+", <<>>, <<4, 5, 7, 6, 5, 7, 5, 5, 4, 3, 6, 0, 2, 8, 5, 7, 7>>>>,
    <<"sinh", <<"-", "2">>, "-", <<3>>, <<6, 2, 6, 8, 6, 0, 4, 0, 7, 8, 4, 7, 0, 1, 9>>>>,
    <<"exp", <<"-", "2">>, "+", <<>>, <<1, 3, 5, 3, 3, 5, 2, 8, 3, 2, 3, 6, 6, 1, 2, 7>>>>,
    <<"sin", <<"-", "0", ".", "5">>, "-", <<>>, <<4, 7, 9, 4, 2, 5, 5, 3, 8, 6, 0, 4, 2, 0, 3>>>>,
    <<"cos", <<"-", "0", ".", "5">>, "+", <<>>, <<8, 7, 7, 5, 8, 2, 5, 6, 1, 8, 9, 0, 3, 7, 2, 8>>>>,
    <<"tan", <<"-", "0", ".", "5">>, "-", <<>>, <<5, 4, 6, 3, 0, 2, 4, 8, 9, 8, 4, 3, 7, 9, 0, 5>>>>,
    <<"cot", <<"-", "0", ".", "5">>, "-", <<1>>, <<8, 3, 0, 4, 8, 7, 7, 2, 1, 7, 1, 2, 4, 5, 2>>>>,
    <<"sinh", <<"-", "0", ".", "5">>, "-", <<>>, <<5, 2, 1, 0, 9, 5, 3, 0, 5, 4, 9, 3, 7, 4, 7, 4>>>>,
    <<"exp", <<"-", "0", ".", "5">>, "+", <<>>, <<6, 0, 6, 5, 3, 0, 6, 5, 9, 7, 1, 2, 6, 3, 3, 4>>>>,
    <<"factorial", <<"-", "0", ".", "5">>, "+", <<1>>, <<7, 7, 2, 4, 5, 3, 8, 5, 0, 9, 0, 5, 5, 1, 5, 9>>>>,
    <<"sin", <<"0", ".", "5">>, "+", <<>>, <<4, 7, 9, 4, 2, 5, 5, 3, 8, 6, 0, 4, 2, 0, 3>>>>,
    <<"cos", <<"0", ".", "5">>, "+", <<>>, <<8, 7, 7, 5, 8, 2, 5, 6, 1, 8, 9, 0, 3, 7, 2, 8>>>>,
    <<"tan", <<"0", ".", "5">>, "+", <<>>, <<5, 4, 6, 3, 0, 2, 4, 8, 9, 8, 4, 3, 7, 9, 0, 5>>>>,
    <<"cot", <<"0", ".", "5">>, "+", <<1>>, <<8, 3, 0, 4, 8, 7, 7, 2, 1, 7, 1, 2, 4, 5, 2>>>>,
    <<"sinh", <<"0", ".", "5">>, "+", <<>>, <<5, 2, 1, 0, 9, 5, 3, 0, 5, 4, 9, 3, 7, 4, 7, 4>>>>,
    <<"exp", <<"0", ".", "5">>, "+", <<1>>, <<6, 4, 8, 7, 2, 1, 2, 7, 0, 7, 0, 0, 1, 2, 8, 2>>>>,
    <<"log", <<"0", ".", "5">>, "-", <<>>, <<6, 9, 3, 1, 4, 7, 1, 8, 0, 5, 5, 9, 9, 4, 5, 3>>>>,
    <<"sqrt", <<"0", ".", "5">>, "+", <<>>, <<7, 0, 7, 1, 0, 6, 7, 8, 1, 1, 8, 6, 5, 4, 7, 6>>>>,
    <<"cbrt", <<"0", ".", "5">>, "+", <<>>, <<7, 9, 3, 7, 0, 0, 5, 2, 5, 9, 8, 4, 0, 9, 9, 8>>>>,
    <<"factorial", <<"0", ".", "5">>, "+", <<>>, <<8, 8, 6, 2, 2, 6, 9, 2, 5, 4, 5, 2, 7, 5, 8>>>>,
    <<"sin", <<"1", ".", "5">>, "+", <<>>, <<9, 9, 7, 4, 9, 4, 9, 8, 6, 6, 0, 4, 0, 5, 4, 4>>>>,
    <<"cos", <<"1", ".", "5">>, "+", <<>>, <<0, 7, 0, 7, 3, 7, 2, 0, 1, 6, 6, 7, 7, 0, 2, 9>>>>,
    <<"tan", <<"1", ".", "5">>, "+", <<1, 4>>, <<1, 0, 1, 4, 1, 9, 9, 4, 7, 1, 7, 1, 7, 1, 9>>>>,
    <<"cot", <<"1", ".", "5">>, "+", <<>>, <<0, 7, 0, 9, 1, 4, 8, 4, 4, 3, 0, 2, 6, 5, 2, 4, 5>>>>,
    <<"sinh", <<"1", ".", "5">>, "+", <<2>>, <<1, 2, 9, 2, 7, 9, 4, 5, 5, 0, 9, 4, 8, 1, 7, 3>>>>,
    <<"exp", <<"1", ".", "5">>, "+", <<4>>, <<4, 8, 1, 6, 8, 9, 0, 7, 0, 3, 3, 8, 0, 6, 4, 5>>>>,
    <<"log", <<"1", ".", "5">>, "+", <<>>, <<4, 0, 5, 4, 6, 5, 1, 0, 8, 1, 0, 8, 1, 6, 4, 4>>>>,
    <<"sqrt", <<"1", ".", "5">>, "+", <<1>>, <<2, 2, 4, 7, 4, 4, 8, 7, 1, 3, 9, 1, 5, 8, 9>>>>,
    <<"cbrt", <<"1", ".", "5">>, "+", <<1>>, <<1, 4, 4, 7, 1, 4, 2, 4, 2, 5, 5, 3, 3, 3, 1, 9>>>>,
    <<"factorial", <<"1", ".", "5">>, "+", <<1>>, <<3, 2, 9, 3, 4, 0, 3, 8, 8, 1, 7, 9, 1, 3, 7, 2>>>>,
    <<"sin", <<"2", ".", "5">>, "+", <<>>, <<5, 9, 8, 4, 7, 2, 1, 4, 4, 1, 0, 3, 9, 5, 6, 5>>>>,
    <<"cos", <<"2", ".", "5">>, "-", <<>>, <<8, 0, 1, 1, 4, 3, 6, 1, 5, 5, 4, 6, 9, 3, 3, 7>>>>,
    <<"tan", <<"2", ".", "5">>, "-", <<>>, <<7, 4, 7, 0, 2, 2, 2, 9, 7, 2, 3, 8, 6, 6, 0, 3>>>>,
    <<"cot", <<"2", ".", "5">>, "-", <<1>>, <<3, 3, 8, 6, 4, 8, 1, 2, 8, 3, 0, 4, 1, 5, 1, 4>>>>,
    <<"sinh", <<"2", ".", "5">>, "+", <<6>>, <<0, 5, 0, 2, 0, 4, 4, 8, 1, 0, 3, 9, 7, 8, 7, 5>>>>,
    <<"exp", <<"2", ".", "5">>, "+", <<1, 2>>, <<1, 8, 2, 4, 9, 3, 9, 6, 0, 7, 0, 3, 4, 7, 3>>>>,
    <<"log", <<"2", ".", "5">>, "+", <<>>, <<9, 1, 6, 2, 9, 0, 7, 3, 1, 8, 7, 4, 1, 5, 5, 1>>>>,
    <<"sqrt", <<"2", ".", "5">>, "+", <<1>>, <<5, 8, 1, 1, 3, 8, 8, 3, 0, 0, 8, 4, 1, 8, 9, 8>>>>,
    <<"cbrt", <<"2", ".", "5">>, "+", <<1>>, <<3, 5, 7, 2, 0, 8, 8, 0, 8, 2, 9, 7, 4, 5, 3, 2>>>>,
    <<"factorial", <<"2", ".", "5">>, "+", <<3>>, <<3, 2, 3, 3, 5, 0, 9, 7, 0, 4, 4, 7, 8, 4, 2>>>>,
    <<"sin", <<"-", "2", ".", "5">>, "-", <<>>, <<5, 9, 8, 4, 7, 2, 1, 4, 4, 1, 0, 3, 9, 5, 6, 5>>>>,
    <<"cos", <<"-", "2", ".", "5">>, "-", <<>>, <<8, 0, 1, 1, 4, 3, 6, 1, 5, 5, 4, 6, 9, 3, 3, 7>>>>,
    <<"tan", <<"-", "2", ".", "5">>, "+", <<>>, <<7, 4, 7, 0, 2, 2, 2, 9, 7, 2, 3, 8, 6, 6, 0, 3>>>>,
    <<"cot", <<"-", "2", ".", "5">>, "+", <<1>>, <<3, 3, 8, 6, 4, 8, 1, 2, 8, 3, 0, 4, 1, 5, 1, 4>>>>,
    <<"sinh", <<"-", "2", ".", "5">>, "-", <<6>>, <<0, 5, 0, 2, 0, 4, 4, 8, 1, 0, 3, 9, 7, 8, 7, 5>>>>,
    <<"exp", <<"-", "2", ".", "5">>, "+", <<>>, <<0, 8, 2, 0, 8, 4, 9, 9, 8, 6, 2, 3, 8, 9, 8, 8>>>>,
    <<"factorial", <<"-", "2", ".", "5">>, "+", <<2>>, <<3, 6, 3, 2, 7, 1, 8, 0, 1, 2, 0, 7, 3, 5, 4, 4>>>>,
    <<"sin", <<"0", ".", "1">>, "+", <<>>, <<0, 9, 9, 8, 3, 3, 4, 1, 6, 6, 4, 6, 8, 2, 8, 1, 5>>>>,
    <<"cos", <<"0", ".", "1">>, "+", <<>>, <<9, 9, 5, 0, 0, 4, 1, 6, 5, 2, 7, 8, 0, 2, 5, 8>>>>,
    <<"tan", <<"0", ".", "1">>, "+", <<>>, <<1, 0, 0, 3, 3, 4, 6, 7, 2, 0, 8, 5, 4, 5, 0, 5, 5>>>>,
    <<"cot", <<"0", ".", "1">>, "+", <<9>>, <<9, 6, 6, 6, 4, 4, 4, 2, 3, 2, 5, 9, 2, 3, 8>>>>,
    <<"sinh", <<"0", ".", "1">>, "+", <<>>, <<1, 0, 0, 1, 6, 6, 7, 5, 0, 0, 1, 9, 8, 4, 4, 0, 3>>>>,
    <<"exp", <<"0", ".", "1">>, "+", <<1>>, <<1, 0, 5, 1, 7, 0, 9, 1, 8, 0, 7, 5, 6, 4, 7, 7>>>>,
    <<"log", <<"0", ".", "1">>, "-", <<2>>, <<3, 0, 2, 5, 8, 5, 0, 9, 2, 9, 9, 4, 0, 4, 5, 5>>>>,
    <<"sqrt", <<"0", ".", "1">>, "+", <<>>, <<3, 1, 6, 2, 2, 7, 7, 6, 6, 0, 1, 6, 8, 3, 7, 9, 4>>>>,
    <<"cbrt", <<"0", ".", "1">>, "+", <<>>, <<4, 6, 4, 1, 5, 8, 8, 8, 3, 3, 6, 1, 2, 7, 7, 9>>>>,
    <<"factorial", <<"0", ".", "1">>, "+", <<>>, <<9, 5, 1, 3, 5, 0, 7, 6, 9, 8, 6, 6, 8, 7, 3>>>>,
    <<"sin", <<"0", ".", "2">>, "+", <<>>, <<1, 9, 8, 6, 6, 9, 3, 3, 0, 7, 9, 5, 0, 6, 1, 2, 2>>>>,
    <<"cos", <<"0", ".", "2">>, "+", <<>>, <<9, 8, 0, 0, 6, 6, 5, 7, 7, 8, 4, 1, 2, 4, 1, 6>>>>,
    <<"tan", <<"0", ".", "2">>, "+", <<>>, <<2, 0, 2, 7, 1, 0, 0, 3, 5, 5, 0, 8, 6, 7, 2, 5>>>>,
    <<"cot", <<"0", ".", "2">>, "+", <<4>>, <<9, 3, 3, 1, 5, 4, 8, 7, 5, 5, 8, 6, 8, 9, 3>>>>,
    <<"sinh", <<"0", ".", "2">>, "+", <<>>, <<2, 0, 1, 3, 3, 6, 0, 0, 2, 5, 4, 1, 0, 9, 4, 0, 2>>>>,
    <<"exp", <<"0", ".", "2">>, "+", <<1>>, <<2, 2, 1, 4, 0, 2, 7, 5, 8, 1, 6, 0, 1, 6, 9, 9>>>>,
    <<"log", <<"0", ".", "2">>, "-", <<1>>, <<6, 0, 9, 4, 3, 7, 9, 1, 2, 4, 3, 4, 1, 0, 0, 3>>>>,
    <<"sqrt", <<"0", ".", "2">>, "+", <<>>, <<4, 4, 7, 2, 1, 3, 5, 9, 5, 4, 9, 9, 9, 5, 7, 9>>>>,
    <<"cbrt", <<"0", ".", "2">>, "+", <<>>, <<5, 8, 4, 8, 0, 3, 5, 4, 7, 6, 4, 2, 5, 7, 3, 3>>>>,
    <<"factorial", <<"0", ".", "2">>, "+", <<>>, <<9, 1, 8, 1, 6, 8, 7, 4, 2, 3, 9, 9, 7, 6, 0, 4>>>>,
    <<"sin", <<"2", ".", "2", "5">>, "+", <<>>, <<7, 7, 8, 0, 7, 3, 1, 9, 6, 8, 8, 7, 9, 2, 1, 2>>>>,
    <<"cos", <<"2", ".", "2", "5">>, "-", <<>>, <<6, 2, 8, 1, 7, 3, 6, 2, 2, 7, 2, 2, 7, 3, 9, 1>>>>,
    <<"tan", <<"2", ".", "2", "5">>, "-", <<1>>, <<2, 3, 8, 6, 2, 7, 6, 1, 6, 2, 2, 4, 0, 9, 6, 6>>>>,
    <<"cot", <<"2", ".", "2", "5">>, "-", <<>>, <<8, 0, 7, 3, 4, 5, 1, 5, 1, 1, 1, 8, 5, 0, 7, 6>>>>,
    <<"sinh", <<"2", ".", "2", "5">>, "+", <<4>>, <<6, 9, 1, 1, 6, 8, 3, 0, 5, 8, 9, 8, 3, 3, 1>>>>,
    <<"exp", <<"2", ".", "2", "5">>, "+", <<9>>, <<4, 8, 7, 7, 3, 5, 8, 3, 6, 3, 5, 8, 5, 2, 6>>>>,
    <<"log", <<"2", ".", "2", "5">>, "+", <<>>, <<8, 1, 0, 9, 3, 0, 2, 1, 6, 2, 1, 6, 3, 2, 8, 8>>>>,
    <<"cbrt", <<"2", ".", "2", "5">>, "+", <<1>>, <<3, 1, 0, 3, 7, 0, 6, 9, 7, 1, 0, 4, 4, 4, 8, 2>>>>,
    <<"factorial", <<"2", ".", "2", "5">>, "+", <<2>>, <<5, 4, 9, 2, 5, 6, 9, 6, 6, 7, 1, 8, 5, 2, 8, 5>>>>,
    <<"sin", <<"7">>, "+", <<>>, <<6, 5, 6, 9, 8, 6, 5, 9, 8, 7, 1, 8, 7, 8, 9, 1>>>>,
    <<"cos", <<"7">>, "+", <<>>, <<7, 5, 3, 9, 0, 2, 2, 5, 4, 3, 4, 3, 3, 0, 4, 6>>>>,
    <<"tan", <<"7">>, "+", <<>>, <<8, 7, 1, 4, 4, 7, 9, 8, 2, 7, 2, 4, 3, 1, 8, 8>>>>,
    <<"cot", <<"7">>, "+", <<1>>, <<1, 4, 7, 5, 1, 5, 4, 2, 2, 4, 0, 5, 1, 3, 5, 6>>>>,
    <<"sinh", <<"7">>, "+", <<5, 4, 8>>, <<3, 1, 6, 1, 2, 3, 2, 7, 3, 2, 4, 6, 5>>>>,
    <<"exp", <<"7">>, "+", <<1, 0, 9, 6>>, <<6, 3, 3, 1, 5, 8, 4, 2, 8, 4, 5, 8, 5>>>>,
    <<"log", <<"7">>, "+", <<1>>, <<9, 4, 5, 9, 1, 0, 1, 4, 9, 0, 5, 5, 3, 1, 3, 2>>>>,
    <<"sqrt", <<"7">>, "+", <<2>>, <<6, 4, 5, 7, 5, 1, 3, 1, 1, 0, 6, 4, 5, 9, 0, 7>>>>,
    <<"cbrt", <<"7">>, "+", <<1>>, <<9, 1, 2, 9, 3, 1, 1, 8, 2, 7, 7, 2, 3, 8, 9>>>>,
    <<"factorial", <<"7">>, "+", <<5, 0, 4, 0>>, <<>>>>,
    <<"sin", <<"6">>, "-", <<>>, <<2, 7, 9, 4, 1, 5, 4, 9, 8, 1, 9, 8, 9, 2, 5, 8, 6>>>>,
    <<"cos", <<"6">>, "+", <<>>, <<9, 6, 0, 1, 7, 0, 2, 8, 6, 6, 5, 0, 3, 6, 6>>>>,
    <<"tan", <<"6">>, "-", <<>>, <<2, 9, 1, 0, 0, 6, 1, 9, 1, 3, 8, 4, 7, 4, 9, 1, 5>>>>,
    <<"cot", <<"6">>, "-", <<3>>, <<4, 3, 6, 3, 5, 3, 0, 0, 4, 1, 8, 0, 1, 2, 8>>>>,
    <<"sinh", <<"6">>, "+", <<2, 0, 1>>, <<7, 1, 3, 1, 5, 7, 3, 7, 0, 2, 7, 9, 2, 2>>>>,
    <<"exp", <<"6">>, "+", <<4, 0, 3>>, <<4, 2, 8, 7, 9, 3, 4, 9, 2, 7, 3, 5, 1>>>>,
    <<"log", <<"6">>, "+", <<1>>, <<7, 9, 1, 7, 5, 9, 4, 6, 9, 2, 2, 8, 0, 5, 5>>>>,
    <<"sqrt", <<"6">>, "+", <<2>>, <<4, 4, 9, 4, 8, 9, 7, 4, 2, 7, 8, 3, 1, 7, 8>>>>,
    <<"cbrt", <<"6">>, "+", <<1>>, <<8, 1, 7, 1, 2, 0, 5, 9, 2, 8, 3, 2, 1, 3, 9, 7>>>>,
    <<"factorial", <<"6">>, "+", <<7, 2, 0>>, <<>>>>
>>

\* float(pi.evalf()), float(E.evalf())
ConstTable == <<
    <<"pi", <<>>, "+", <<3>>, <<1, 4, 1, 5, 9, 2, 6, 5, 3, 5, 8, 9, 7, 9, 3>>>>,
    <<"E", <<>>, "+", <<2>>, <<7, 1, 8, 2, 8, 1, 8, 2, 8, 4, 5, 9, 0, 4, 5>>>>
>>

\* abs(a % 180 - 90) < 1e-10 (tan) and abs(a % 180) < 1e-10 (cot) in IEEE-754 doubles, for the
\* arguments whose decimal distance is exactly 1e-10: the rounding of the double decides
EdgeTable == <<
    <<"cot", <<"0", ".", "0", "0", "0", "0", "0", "0", "0", "0", "0", "1">>, FALSE>>,
    <<"tan", <<"8", "9", ".", "9", "9", "9", "9", "9", "9", "9", "9", "9", "9">>, FALSE>>,
    <<"tan", <<"9", "0", ".", "0", "0", "0", "0", "0", "0", "0", "0", "0", "1">>, FALSE>>,
    <<"tan", <<"-", "8", "9", ".", "9", "9", "9", "9", "9", "9", "9", "9", "9", "9">>, FALSE>>,
    <<"tan", <<"-", "9", "0", ".", "0", "0", "0", "0", "0", "0", "0", "0", "0", "1">>, FALSE>>,
    <<"cot", <<"1", "8", "0", ".", "0", "0", "0", "0", "0", "0", "0", "0", "0", "1">>, TRUE>>,
    <<"tan", <<"2", "6", "9", ".", "9", "9", "9", "9", "9", "9", "9", "9", "9", "9">>, TRUE>>,
    <<"tan", <<"2", "7", "0", ".", "0", "0", "0", "0", "0", "0", "0", "0", "0", "1">>, TRUE>>
>>

\* Buffers the buttons can produce (src/main.py:217-320), among them the angles around the
\* tolerance of _trig_tan / _trig_cot: where a session of the model starts
InitialBuffers == {
    <<>>,    \* (empty text)
    <<"3", "0">>,    \* 30
    <<"4", "5">>,    \* 45
    <<"6", "0">>,    \* 60
    <<"2", "7", "0">>,    \* 270
    <<"3", "6", "0">>,    \* 360
    <<"4", "5", "0">>,    \* 450
    <<"-", "3", "0">>,    \* -30
    <<"-", "1", "8", "0">>,    \* -180
    <<"-", "2", "7", "0">>,    \* -270
    <<"1", "0", "0">>,    \* 100
    <<"5">>,    \* 5
    <<"8">>,    \* 8
    <<"-", "8">>,    \* -8
    <<"1", "2">>,    \* 12
    <<"2", ".", "5">>,    \* 2.5
    <<"-", "2", ".", "5">>,    \* -2.5
    <<"0", ".", "5">>,    \* 0.5
    <<"2", ".", "2", "5">>,    \* 2.25
    <<"2", "0">>,    \* 20
    <<"8", "9", ".", "9", "9", "9", "9", "9", "9", "9", "9", "9", "9">>,    \* 89.9999999999
    <<"9", "0", ".", "0", "0", "0", "0", "0", "0", "0", "0", "0", "1">>,    \* 90.0000000001
    <<"8", "9", ".", "9", "9", "9", "9", "9", "9", "9", "9", "9", "9", "5">>,    \* 89.99999999995
    <<"9", "0", ".", "0", "0", "0", "0", "0", "0", "0", "0", "0", "0", "5">>,    \* 90.00000000005
    <<"8", "9", ".", "9", "9", "9", "9", "9", "9", "9", "9", "9", "8">>,    \* 89.9999999998
    <<"2", "6", "9", ".", "9", "9", "9", "9", "9", "9", "9", "9", "9", "9">>,    \* 269.9999999999
    <<"2", "7", "0", ".", "0", "0", "0", "0", "0", "0", "0", "0", "0", "1">>,    \* 270.0000000001
    <<"-", "8", "9", ".", "9", "9", "9", "9", "9", "9", "9", "9", "9", "9">>,    \* -89.9999999999
    <<"-", "8", "9", ".", "9", "9", "9", "9", "9", "9", "9", "9", "9", "9", "5">>,    \* -89.99999999995
    <<"0", ".", "0", "0", "0", "0", "0", "0", "0", "0", "0", "0", "5">>,    \* 0.00000000005
    <<"0", ".", "0", "0", "0", "0", "0", "0", "0", "0", "0", "1">>,    \* 0.0000000001
    <<"0", ".", "0", "0", "0", "0", "0", "0", "0", "0", "0", "2">>,    \* 0.0000000002
    <<"1", "7", "9", ".", "9", "9", "9", "9", "9", "9", "9", "9", "9", "9", "5">>,    \* 179.99999999995
    <<"1", "8", "0", ".", "0", "0", "0", "0", "0", "0", "0", "0", "0", "0", "5">>,    \* 180.00000000005
    <<"-", "0", ".", "0", "0", "0", "0", "0", "0", "0", "0", "0", "0", "5">>,    \* -0.00000000005
    <<"3", "5", "9", ".", "9", "9", "9", "9", "9", "9", "9", "9", "9", "9", "5">>,    \* 359.99999999995
    <<"1", "8", "0", ".", "0", "0", "0", "0", "0", "0", "0", "0", "0", "1">>,    \* 180.0000000001
    <<"-", "0", ".", "0", "0", "0", "0", "0", "0", "0", "0", "4">>,    \* -0.000000004
    <<"a", "b", "s", "(", "-", "2", ")">>,    \* abs(-2)
    <<"2", ".", "7", "1", "8", "2", "8", "1", "8", "2", "8", "4", "5", "9", "0", "4", "5">>,    \* 2.718281828459045
    <<"3", ".", "1", "4", "1", "5", "9", "2", "6", "5", "3", "5", "8", "9", "7", "9", "3">>,    \* 3.141592653589793
    <<"5", "/", "/", "0">>,    \* 5//0
    <<"7", "%", "0">>,    \* 7%0
    <<"2", "*", "*", "1", "0">>,    \* 2**10
    <<"1", "/", "3">>,    \* 1/3
    <<"2", "/", "3">>,    \* 2/3
    <<"(", "1", "+", "2">>,    \* (1+2
    <<"1", "+">>,    \* 1+
    <<"5", ")", "+", "(", "1">>,    \* 5)+(1
    <<"2", "*", "*", "(", "-", "1", ")">>,    \* 2**(-1)
    <<"5", "*", "1", "0", "*", "*", "2">>,    \* 5*10**2
    <<"2", "*", "*", "(", "1", "/", "2", ")">>,    \* 2**(1/2)
    <<"0", "0", "7">>,    \* 007
    <<"1", ".", ".", "2">>    \* 1..2
}

\* The strings _button_click appends in the model: '0', '9', '/', '-' of the buttons at
\* src/main.py:314, 281, 297, 309
ClickStrings == {
    <<"0">>,    \* 0
    <<"9">>,    \* 9
    <<"/">>,    \* /
    <<"-">>    \* -
}

\* Expressions given to safe_evaluate
EvalTexts == {
    <<>>,    \* (empty text)
    <<"(", "1", "+", "2">>,    \* (1+2
    <<"1", "+">>,    \* 1+
    <<"*", "2">>,    \* *2
    <<"f", "o", "o", "(", "1", ")">>,    \* foo(1)
    <<"f", "o", "o">>,    \* foo
    <<"x">>,    \* x
    <<"x", "+", "1">>,    \* x+1
    <<"e">>,    \* e
    <<"s", "q", "r", "t", "(", "-", "1", ")">>,    \* sqrt(-1)
    <<"s", "q", "r", "t", "(", "4", ")">>,    \* sqrt(4)
    <<"s", "q", "r", "t", "(", "2", ")">>,    \* sqrt(2)
    <<"s", "q", "r", "t", "(", "2", ".", "2", "5", ")">>,    \* sqrt(2.25)
    <<"0", "/", "0">>,    \* 0/0
    <<"1", "/", "0">>,    \* 1/0
    <<"-", "1", "/", "0">>,    \* -1/0
    <<"5", "/", "/", "0">>,    \* 5//0
    <<"7", "%", "0">>,    \* 7%0
    <<"7", "%", "3">>,    \* 7%3
    <<"7", "/", "/", "2">>,    \* 7//2
    <<"f", "a", "c", "t", "o", "r", "i", "a", "l", "(", "5", ")">>,    \* factorial(5)
    <<"f", "a", "c", "t", "o", "r", "i", "a", "l", "(", "0", ")">>,    \* factorial(0)
    <<"f", "a", "c", "t", "o", "r", "i", "a", "l", "(", "-", "1", ")">>,    \* factorial(-1)
    <<"f", "a", "c", "t", "o", "r", "i", "a", "l", "(", "2", ".", "5", ")">>,    \* factorial(2.5)
    <<"f", "a", "c", "t", "o", "r", "i", "a", "l", "(", "-", "2", ".", "5", ")">>,    \* factorial(-2.5)
    <<"f", "a", "c", "t", "o", "r", "i", "a", "l", "(", ")">>,    \* factorial()
    <<"s", "i", "n", "(", "3", "0", ")">>,    \* sin(30)
    <<"c", "o", "s", "(", "6", "0", ")">>,    \* cos(60)
    <<"t", "a", "n", "(", "4", "5", ")">>,    \* tan(45)
    <<"c", "o", "t", "(", "4", "5", ")">>,    \* cot(45)
    <<"s", "i", "n", "(", "0", ")">>,    \* sin(0)
    <<"c", "o", "s", "(", "0", ")">>,    \* cos(0)
    <<"s", "i", "n", "h", "(", "0", ")">>,    \* sinh(0)
    <<"s", "i", "n", "h", "(", "1", ")">>,    \* sinh(1)
    <<"p", "i">>,    \* pi
    <<"E">>,    \* E
    <<"o", "o">>,    \* oo
    <<"-", "o", "o">>,    \* -oo
    <<"n", "a", "n">>,    \* nan
    <<"z", "o", "o">>,    \* zoo
    <<"I">>,    \* I
    <<"l", "n", "(", "1", ")">>,    \* ln(1)
    <<"l", "n", "(", "1", "0", ")">>,    \* ln(10)
    <<"l", "o", "g", "(", "0", ")">>,    \* log(0)
    <<"l", "o", "g", "(", "-", "1", ")">>,    \* log(-1)
    <<"l", "o", "g", "(", "1", "0", ")">>,    \* log(10)
    <<"e", "x", "p", "(", "1", ")">>,    \* exp(1)
    <<"e", "x", "p", "(", "0", ")">>,    \* exp(0)
    <<"a", "b", "s", "(", "-", "2", ")">>,    \* abs(-2)
    <<"A", "b", "s", "(", "-", "2", ")">>,    \* Abs(-2)
    <<"1", "/", "3">>,    \* 1/3
    <<"2", "/", "3">>,    \* 2/3
    <<"1", "/", "8">>,    \* 1/8
    <<"5", "/", "2">>,    \* 5/2
    <<"-", "0", ".", "0", "0", "0", "0", "0", "0", "0", "0", "4">>,    \* -0.000000004
    <<"2", "*", "*", "1", "0">>,    \* 2**10
    <<"2", "*", "*", "-", "1">>,    \* 2**-1
    <<"-", "2", "*", "*", "2">>,    \* -2**2
    <<"8", "*", "*", "(", "1", "/", "3", ")">>,    \* 8**(1/3)
    <<"(", "-", "8", ")", "*", "*", "(", "1", "/", "3", ")">>,    \* (-8)**(1/3)
    <<"2", "*", "*", "(", "1", "/", "3", ")">>,    \* 2**(1/3)
    <<"0", "0", "7">>,    \* 007
    <<"0", "0">>,    \* 00
    <<"1", ".", ".", "2">>,    \* 1..2
    <<".">>,    \* .
    <<"1", ".">>,    \* 1.
    <<".", "5">>,    \* .5
    <<"2", "(", "3", ")">>,    \* 2(3)
    <<"s", "i", "n">>,    \* sin
    <<"(", ")">>,    \* ()
    <<"l", "a", "m", "b", "d", "a">>,    \* lambda
    <<"s", "i", "n", "(", "1", ")", "+", "c", "o", "s", "(", "1", ")">>,    \* sin(1)+cos(1)
    <<"p", "i", "/", "2">>,    \* pi/2
    <<"E", "*", "*", "2">>,    \* E**2
    <<"1", "/", "o", "o">>    \* 1/oo
}

\* Texts of the plot entry
PlotTexts == {
    <<>>,    \* (empty text)
    <<"x">>,    \* x
    <<"5">>,    \* 5
    <<"l", "o", "g", "(", "x", ")">>,    \* log(x)
    <<"s", "q", "r", "t", "(", "x", ")">>,    \* sqrt(x)
    <<"s", "i", "n", "(", "x", ")">>,    \* sin(x)
    <<"s", "i", "n", "h", "(", "x", ")">>,    \* sinh(x)
    <<"f", "o", "o", "(", "x", ")">>,    \* foo(x)
    <<"y">>,    \* y
    <<"x", "*", "0">>,    \* x*0
    <<"(", "x">>,    \* (x
    <<"1", "/", "x">>,    \* 1/x
    <<"x", "*", "*", "2">>,    \* x**2
    <<"l", "o", "g", "(", "x", ")", "+", "1">>,    \* log(x)+1
    <<"c", "o", "t", "(", "x", ")">>,    \* cot(x)
    <<"p", "i">>,    \* pi
    <<"x", "+">>,    \* x+
    <<"e", "x", "p", "(", "x", ")">>,    \* exp(x)
    <<"2", "*", "x", "+", "1">>,    \* 2*x+1
    <<"a", "b", "s", "(", "x", ")">>    \* abs(x)
}

\* The keys typed into the plot entry in the model
GraphKeys == {
    <<"x">>,    \* x
    <<"5">>,    \* 5
    <<"+">>    \* +
}

\* ---- end of tabulated values

\* -------------------------------------------------------------- arithmetic
(***************************************************************************)
(* The arithmetic sympify performs while it evaluates the parsed text      *)
(* (sympy's Integer / Rational / Float / zoo / nan), and, for a value that *)
(* depends on a sample point (hx on a number), the float arithmetic of the *)
(* numpy function lambdify builds.                                         *)
(***************************************************************************)
WithX(v, hx) == [v EXCEPT !.hx = hx]
\* a float of the numpy path: exact while it fits, else a float of unknown digits
NumX(n, d, flt, hx) ==
    LET v == Num(n, d, flt)
    IN  IF ~hx THEN v ELSE IF v.k = "beyond" THEN WithX(Real, TRUE) ELSE WithX(v, TRUE)
Small(n) == Abs(n) <= 1000000000

FloorDiv(a, b) == IF b > 0 THEN a \div b ELSE (-a) \div (-b)
PyMod(a, b) == a - b * FloorDiv(a, b)

RECURSIVE PowNat(_, _)
\* r^q for naturals, or MaxNum + 1 once it exceeds MaxNum
PowNat(r, q) ==
    IF q = 0 THEN 1
    ELSE IF r <= 1 THEN r
    ELSE LET t == PowNat(r, q - 1) IN IF t > MaxNum THEN MaxNum + 1 ELSE t * r
\* the natural r with r^q = n, or -1
Root(n, q) ==
    LET c == {r \in 0..200 : PowNat(r, q) = n}
    IN  IF c = {} THEN -1 ELSE CHOOSE r \in c : TRUE

RECURSIVE IntPow(_, _, _)
\* (n/d)^e for e >= 0
IntPow(a, e, hx) ==
    IF e = 0 THEN WithX(Num(1, 1, a.flt), hx)
    ELSE IF a.n = 0 \/ (a.n = 1 /\ a.d = 1) THEN a
    ELSE IF a.n = -1 /\ a.d = 1 THEN (IF e % 2 = 0 THEN WithX(Num(1, 1, a.flt), hx) ELSE a)
    ELSE LET t == Call("IntPow", <<a, e - 1, hx>>)
         IN  IF t.k # "num" THEN t ELSE NumX(t.n * a.n, t.d * a.d, a.flt, hx)

PowNum(a, b, hx) ==
    LET flt == a.flt \/ b.flt
        af == [a EXCEPT !.flt = flt, !.hx = hx]
        inv == [af EXCEPT !.n = (IF a.n < 0 THEN -a.d ELSE a.d), !.d = Abs(a.n)]
        rn == Root(Abs(a.n), b.d)
        rd == Root(a.d, b.d)
        rt == [af EXCEPT !.n = rn, !.d = rd]
        \* sympy keeps an irrational root symbolic; evalf gives its float
        irrational == IF hx THEN WithX(Real, TRUE)
                      ELSE IF b.n = 1 /\ b.d = 2 THEN Call("Lookup", <<SympyTable, "sqrt", a>>)
                      ELSE IF b.n = 1 /\ b.d = 3 THEN Call("Lookup", <<SympyTable, "cbrt", a>>)
                      ELSE Beyond
    IN  IF b.d = 1
        THEN IF b.n >= 0 THEN Call("IntPow", <<af, b.n, hx>>)
             ELSE IF a.n = 0 THEN (IF hx THEN WithX(Inf(FALSE), TRUE) ELSE Zoo)
             ELSE Call("IntPow", <<inv, -b.n, hx>>)
        ELSE IF a.n = 0 THEN (IF b.n > 0 THEN af
                              ELSE IF hx THEN WithX(Inf(FALSE), TRUE) ELSE Zoo)
        ELSE IF a.n = 1 /\ a.d = 1 THEN af
        ELSE IF a.n < 0 THEN (IF hx THEN WithX(NaN, TRUE) ELSE Cplx)
        ELSE IF rn < 0 \/ rd < 0 THEN irrational
        ELSE IF b.n >= 0 THEN Call("IntPow", <<rt, b.n, hx>>)
        ELSE Call("IntPow", <<[rt EXCEPT !.n = rd, !.d = rn], -b.n, hx>>)

\* two exact rationals
NumBin(op, a, b, hx) ==
    LET flt == a.flt \/ b.flt
        x1 == a.n * b.d
        x2 == b.n * a.d
        bothInt == IsInteger(a) /\ IsInteger(b)
    IN  CASE op = "+" -> IF Small(x1) /\ Small(x2) THEN NumX(x1 + x2, a.d * b.d, flt, hx)
                         ELSE IF hx THEN WithX(Real, TRUE) ELSE Beyond
          [] op = "-" -> IF Small(x1) /\ Small(x2) THEN NumX(x1 - x2, a.d * b.d, flt, hx)
                         ELSE IF hx THEN WithX(Real, TRUE) ELSE Beyond
          [] op = "*" -> NumX(a.n * b.n, a.d * b.d, flt, hx)
          [] op = "/" -> IF b.n = 0
                         THEN IF hx THEN WithX(IF a.n = 0 THEN NaN ELSE Inf(a.n < 0), TRUE)
                              ELSE IF a.n = 0 THEN NaN ELSE Zoo
                         ELSE NumX(IF b.n < 0 THEN -x1 ELSE x1, Abs(x2), flt, hx)
          [] op = "//" -> IF ~bothInt \/ hx THEN Beyond
                          ELSE IF b.n = 0 THEN Raise("ZeroDivisionError")
                          ELSE IntV(FloorDiv(a.n, b.n))
          [] op = "%" -> IF ~bothInt \/ hx THEN Beyond
                         ELSE IF b.n = 0 THEN Raise("ZeroDivisionError")
                         ELSE IntV(PyMod(a.n, b.n))
          [] op = "**" -> Call("PowNum", <<a, b, hx>>)

\* sympy constants, at least one of them not an exact rational
SpBin(op, a, b) ==
    LET ks == {a.k, b.k}
        fin(v) == v.k \in {"num", "dec"}
        arith == op \in {"+", "-", "*", "/"}
    IN  IF "nan" \in ks THEN (IF arith THEN NaN ELSE Beyond)
        ELSE IF "oo" \in ks \/ "real" \in ks THEN Beyond
        ELSE IF "zoo" \in ks THEN
            CASE op \in {"+", "-"} -> IF ks = {"zoo"} THEN NaN
                                      ELSE IF fin(a) \/ fin(b) THEN Zoo ELSE Beyond
              [] op = "*" -> IF ks = {"zoo"} THEN Zoo
                             ELSE IF IsZero(a) \/ IsZero(b) THEN NaN
                             ELSE IF fin(a) \/ fin(b) THEN Zoo ELSE Beyond
              [] op = "/" -> IF ks = {"zoo"} THEN NaN
                             ELSE IF a.k = "zoo" /\ fin(b) THEN Zoo
                             ELSE IF fin(a) THEN IntV(0) ELSE Beyond
              [] OTHER -> Beyond
        ELSE IF "cplx" \in ks THEN
            CASE op \in {"+", "-"} -> IF fin(a) \/ fin(b) THEN Cplx ELSE Beyond
              [] op = "*" -> IF IsZero(a) \/ IsZero(b) THEN IntV(0)
                             ELSE IF fin(a) \/ fin(b) THEN Cplx ELSE Beyond
              [] op = "/" -> IF a.k = "cplx" /\ fin(b) THEN (IF IsZero(b) THEN Zoo ELSE Cplx)
                             ELSE Beyond
              [] OTHER -> Beyond
        ELSE Beyond

\* floats of the numpy path, at least one of them not exact
NpBin(op, a, b) ==
    LET ks == {a.k, b.k}
        posInt(v) == v.k = "num" /\ v.d = 1 /\ v.n > 0
    IN  IF "nan" \in ks THEN WithX(NaN, TRUE)
        ELSE IF ks \subseteq {"num", "dec", "real"} THEN
            CASE op \in {"+", "-", "*"} -> WithX(Real, TRUE)
              [] op = "/" -> IF b.k = "num" /\ b.n # 0 THEN WithX(Real, TRUE) ELSE Beyond
              [] op = "**" -> IF posInt(b) THEN WithX(Real, TRUE) ELSE Beyond
              [] OTHER -> Beyond
        ELSE Beyond

\* an expression with free symbols and a constant
SymBin(op, a, b) ==
    LET s == IF a.k = "sym" THEN a ELSE b
        o == IF a.k = "sym" THEN b ELSE a
        cx == [s EXCEPT !.flt = TRUE]
        one(v) == v.k = "num" /\ v.n = 1 /\ v.d = 1
    IN  IF a.k = "sym" /\ b.k = "sym" THEN Beyond
        ELSE IF o.k \notin {"num", "dec"} THEN Beyond
        ELSE CASE op \in {"+", "-"} -> s
               [] op = "*" -> IF IsZero(o) THEN IntV(0) ELSE s
               [] op = "/" -> IF a.k = "sym" THEN (IF IsZero(b) THEN Beyond ELSE s)
                              ELSE IF IsZero(a) THEN IntV(0) ELSE cx
               [] op = "**" -> IF s.flt THEN Beyond
                               ELSE IF a.k = "sym"
                               THEN (IF IsZero(b) THEN IntV(1) ELSE IF one(b) THEN a ELSE cx)
                               ELSE (IF one(a) THEN IntV(1) ELSE cx)
               [] OTHER -> Beyond

\* a constant and a sample-dependent float: what sympy folds away before lambdify
Folds(op, a, b) ==
    \/ op = "*" /\ ((~a.hx /\ IsZero(a)) \/ (~b.hx /\ IsZero(b)))
    \/ op = "/" /\ ~a.hx /\ IsZero(a)
    \/ op = "**" /\ ~b.hx /\ IsZero(b)
    \/ op = "**" /\ ~a.hx /\ a.k = "num" /\ a.n = 1 /\ a.d = 1

Bin(op, a, b) ==
    IF a.k \in {"raise", "beyond"} THEN a
    ELSE IF b.k \in {"raise", "beyond"} THEN b
    ELSE IF a.k = "obj" \/ b.k = "obj" THEN Raise("TypeError")
    ELSE IF a.k = "sym" \/ b.k = "sym" THEN Call("SymBin", <<op, a, b>>)
    ELSE IF a.hx \/ b.hx
    THEN IF Folds(op, a, b) THEN IntV(IF op = "**" THEN 1 ELSE 0)
         ELSE IF a.k = "num" /\ b.k = "num" THEN Call("NumBin", <<op, a, b, TRUE>>)
         ELSE Call("NpBin", <<op, a, b>>)
    ELSE IF a.k = "num" /\ b.k = "num" THEN Call("NumBin", <<op, a, b, FALSE>>)
    ELSE Call("SpBin", <<op, a, b>>)

Neg(v) ==
    CASE v.k = "obj" -> Raise("TypeError")
      [] v.k = "num" -> [v EXCEPT !.n = -v.n]
      [] v.k = "dec" -> [v EXCEPT !.neg = ~v.neg /\ ~IsZero(v)]
      [] v.k = "oo" -> [v EXCEPT !.neg = ~v.neg]
      [] OTHER -> v
Pos(v) == IF v.k = "obj" THEN Raise("TypeError") ELSE v


\* ------------------------------------------------------ sympy's functions
RECURSIVE Fact(_)
Fact(n) == IF n <= 1 THEN 1 ELSE n * Fact(n - 1)

\* f(v) for a sympy constant v
SpApply(f, v) ==
    LET half == Num(1, 2, FALSE)
        exact == IF v.k = "num" THEN Call("PowNum", <<v, half, FALSE>>) ELSE Beyond
        tab == Call("Lookup", <<SympyTable, f, v>>)
    IN  IF v.k \notin {"num", "dec"} THEN Beyond
        ELSE CASE f = "Abs" -> IF v.k = "num" THEN [v EXCEPT !.n = Abs(v.n)]
                               ELSE [v EXCEPT !.neg = FALSE]
               [] f = "sqrt" -> IF IsZero(v) THEN v
                                ELSE IF IsNegative(v) THEN Cplx
                                ELSE IF exact.k = "num" THEN exact ELSE tab
               [] f = "log" -> IF IsZero(v) THEN Zoo
                               ELSE IF IsNegative(v) THEN Cplx
                               ELSE IF v.k = "num" /\ v.n = 1 /\ v.d = 1 THEN Num(0, 1, v.flt)
                               ELSE tab
               [] f = "exp" -> IF IsZero(v) THEN Num(1, 1, v.flt) ELSE tab
               [] f \in {"sin", "tan", "sinh"} -> IF IsZero(v) THEN v ELSE tab
               [] f = "cos" -> IF IsZero(v) THEN Num(1, 1, v.flt) ELSE tab
               [] f = "cot" -> IF IsZero(v) THEN Zoo ELSE tab
               [] f = "factorial" ->
                    IF IsInteger(v)
                    THEN (IF v.n < 0 THEN Zoo ELSE IF v.n > 12 THEN Beyond ELSE IntV(Fact(v.n)))
                    ELSE tab
               [] OTHER -> Beyond

\* numpy's f on the float v of one sample point
NpApply(f, v) ==
    LET real == WithX(Real, TRUE)
    IN  IF v.k = "nan" THEN v
        ELSE IF v.k \notin {"num", "real"} THEN Beyond
        ELSE CASE f = "Abs" -> IF v.k = "num" THEN [v EXCEPT !.n = Abs(v.n)] ELSE v
               [] f = "sqrt" -> IF v.k = "real" THEN Beyond
                                ELSE IF v.n < 0 THEN WithX(NaN, TRUE) ELSE real
               [] f = "log" -> IF v.k = "real" THEN Beyond
                               ELSE IF v.n < 0 THEN WithX(NaN, TRUE)
                               ELSE IF v.n = 0 THEN WithX(Inf(TRUE), TRUE) ELSE real
               [] f \in {"sin", "cos", "sinh"} -> real
               [] f \in {"exp", "tan"} -> IF v.k = "real" THEN Beyond ELSE real
               [] OTHER -> Beyond

\* the callable fn applied to the argument v
Apply(fn, v) ==
    IF fn.k # "obj" \/ fn.exc = "" THEN (IF Stops(v) THEN v ELSE Raise("TypeError"))
    ELSE IF Stops(v) THEN v
    ELSE IF v.k = "obj" THEN Raise("TypeError")
    ELSE IF fn.exc = "Function" THEN
        (IF v.k = "sym" THEN [v EXCEPT !.un = TRUE, !.flt = TRUE] ELSE [Sym(v.hx, TRUE) EXCEPT !.flt = TRUE])
    ELSE IF v.k = "sym" THEN (IF v.flt THEN Beyond ELSE [v EXCEPT !.flt = TRUE])
    ELSE IF v.hx THEN Call("NpApply", <<fn.exc, v>>)
    ELSE Call("SpApply", <<fn.exc, v>>)

\* ---------------------------------------------------------------- names
Fn(f) == [Obj EXCEPT !.exc = f]
\* safe_functions of safe_evaluate (src/main.py:55-60): name -> sympy function
CalcFunctions ==
    [abs |-> "Abs", sin |-> "sin", cos |-> "cos", tan |-> "tan", log |-> "log",
     ln |-> "log", exp |-> "exp", sqrt |-> "sqrt", factorial |-> "factorial"]
\* safe_functions of plot_function (src/main.py:98-101)
PlotFunctions ==
    [sin |-> "sin", cos |-> "cos", tan |-> "tan", log |-> "log", exp |-> "exp",
     sqrt |-> "sqrt"]
\* What sympify resolves a name to when it is not in locals: the namespace of
\* "from sympy import *" and the builtin functions (the part the model uses).
SympyFunctions ==
    [abs |-> "Abs", Abs |-> "Abs", sin |-> "sin", cos |-> "cos", tan |-> "tan",
     cot |-> "cot", sinh |-> "sinh", log |-> "log", ln |-> "log", exp |-> "exp",
     sqrt |-> "sqrt", factorial |-> "factorial"]
SympyConstants == {"pi", "E", "I", "oo", "zoo", "nan"}
PyKeywords == {"and", "as", "assert", "break", "class", "def", "del", "elif", "else",
               "except", "for", "from", "if", "import", "in", "is", "lambda", "not",
               "or", "pass", "raise", "return", "try", "while", "with", "yield"}
\* names known to be in neither namespace: sympify makes them Symbols / Functions
FreeNames == {"x", "e", "foo", "n", "na", "i", "ER", "ERR", "ERRO", "ERROR"}

RECURSIVE Join(_)
Join(cs) == IF cs = <<>> THEN "" ELSE Head(cs) \o Join(Tail(cs))

ConstValue(name) ==
    LET rows == TableRows(ConstTable, name, <<>>)
        r == ConstTable[CHOOSE i \in rows : TRUE]
    IN  CASE name \in {"pi", "E"} -> IF rows = {} THEN Beyond
                                     ELSE Dec(r[3] = "-", r[4], r[5], TRUE)
          [] name = "I" -> Cplx
          [] name = "oo" -> Inf(FALSE)
          [] name = "zoo" -> Zoo
          [] name = "nan" -> NaN

\* The object the name cs evaluates to.  locals: the dictionary given to
\* sympify; xval: the value of x (a Symbol, or the float of a sample point);
\* called: the next token is "(".
Resolve(cs, locals, xval, called) ==
    LET name == Join(cs)
        free == name \in FreeNames \/ (Len(cs) > 5 /\ SubSeq(cs, 1, 5) = ERROR)
                   \/ (Len(cs) > 3 /\ SubSeq(cs, 1, 3) = NANTEXT)
    IN  IF name \in DOMAIN locals THEN Fn(locals[name])
        ELSE IF name \in PyKeywords THEN Raise("SympifyError")
        ELSE IF name \in DOMAIN SympyFunctions THEN Fn(SympyFunctions[name])
        ELSE IF name \in SympyConstants THEN Call("ConstValue", <<name>>)
        ELSE IF ~free THEN Beyond
        ELSE IF called THEN Fn("Function")
        ELSE IF name = "x" THEN xval
        ELSE Sym(FALSE, TRUE)


\* --------------------------------------------------------------- sympify
(***************************************************************************)
(* sympify(text, locals): the text is tokenised and evaluated as a Python  *)
(* expression.  Each parsing operator takes the text s and a position p    *)
(* and returns [v, p, st]: the value, the position after what it read and  *)
(* st = "ok", "syntax" (the text is no expression: SympifyError) or        *)
(* "beyond" (a token the model does not cover).  env = [locals, xval].     *)
(***************************************************************************)
At(s, p) == IF p <= Len(s) THEN s[p] ELSE ""
PR(v, p, st) == [v |-> v, p |-> p, st |-> st]
Syntax(p) == PR(Raise("SympifyError"), p, "syntax")
Unmodelled(p) == PR(Beyond, p, "beyond")
\* a NUMBER token at p: Integer for digits only, Float with a point
ParseNumber(s, p) ==
    LET e1 == SkipWhile(s, p, Digit)
        hasDot == At(s, e1) = "."
        e2 == IF hasDot THEN SkipWhile(s, e1 + 1, Digit) ELSE e1
        it == Slice(s, p, e1 - 1)
        ft == IF hasDot THEN Slice(s, e1 + 1, e2 - 1) ELSE <<>>
        octal == ~hasDot /\ Len(it) > 1 /\ it[1] = "0" /\ ~AllZero(ToDigitVals(it))
    IN  IF it = <<>> /\ ft = <<>> THEN Syntax(p)
        ELSE IF At(s, e2) \in NameChar \ Digit THEN Unmodelled(e2)
        ELSE IF octal THEN Syntax(e2)
        ELSE PR(Call("LiteralValue", <<it, ft, hasDot>>), e2, "ok")

ParseName(s, p, env) ==
    LET e == SkipWhile(s, p, NameChar)
        v == Call("Resolve", <<Slice(s, p, e - 1), env.locals, env.xval, At(s, e) = "(">>)
    IN  IF v.k = "raise" THEN Syntax(e)
        ELSE IF v.k = "beyond" THEN Unmodelled(e)
        ELSE PR(v, e, "ok")

RECURSIVE ParseExpr(_, _, _), ExprRest(_, _, _, _), ParseTerm(_, _, _)
RECURSIVE TermRest(_, _, _, _), ParseFactor(_, _, _), ParsePower(_, _, _)
RECURSIVE ParseAtom(_, _, _), Trailers(_, _, _, _)

ParseAtom(s, p, env) ==
    LET c == At(s, p)
    IN  IF c = "(" THEN
            (IF At(s, p + 1) = ")" THEN PR(Obj, p + 2, "ok")
             ELSE LET r == Call("ParseExpr", <<s, p + 1, env>>)
                  IN  IF r.st # "ok" THEN r
                      ELSE IF At(s, r.p) = ")" THEN PR(r.v, r.p + 1, "ok")
                      ELSE IF At(s, r.p) \in {"", "(", "."} \cup NameChar THEN Syntax(r.p)
                      ELSE Unmodelled(r.p))
        ELSE IF c \in Digit \cup {"."} THEN Call("ParseNumber", <<s, p>>)
        ELSE IF c \in NameStart THEN Call("ParseName", <<s, p, env>>)
        ELSE IF c \in {"", ")", "*", "/", "%"} THEN Syntax(p)
        ELSE Unmodelled(p)

\* the calls f(...)(...) that follow an atom
Trailers(s, acc, p, env) ==
    IF At(s, p) # "(" THEN PR(acc, p, "ok")
    ELSE IF At(s, p + 1) = ")" THEN
        Call("Trailers", <<s, IF Stops(acc) THEN acc ELSE Raise("TypeError"), p + 2, env>>)
    ELSE LET r == Call("ParseExpr", <<s, p + 1, env>>)
         IN  IF r.st # "ok" THEN r
             ELSE IF At(s, r.p) = ")" THEN Call("Trailers", <<s, Call("Apply", <<acc, r.v>>), r.p + 1, env>>)
             ELSE IF At(s, r.p) \in {"", "(", "."} \cup NameChar THEN Syntax(r.p)
             ELSE Unmodelled(r.p)

ParsePower(s, p, env) ==
    LET a == Call("ParseAtom", <<s, p, env>>)
        t == IF a.st # "ok" THEN a ELSE Call("Trailers", <<s, a.v, a.p, env>>)
    IN  IF t.st # "ok" THEN t
        ELSE IF At(s, t.p) = "*" /\ At(s, t.p + 1) = "*"
        THEN LET e == Call("ParseFactor", <<s, t.p + 2, env>>)
             IN  IF e.st # "ok" THEN e ELSE PR(Call("Bin", <<"**", t.v, e.v>>), e.p, "ok")
        ELSE t

ParseFactor(s, p, env) ==
    IF At(s, p) \in {"+", "-"}
    THEN LET r == Call("ParseFactor", <<s, p + 1, env>>)
         IN  IF r.st # "ok" THEN r
             ELSE PR(IF At(s, p) = "-" THEN Neg(r.v) ELSE Pos(r.v), r.p, "ok")
    ELSE Call("ParsePower", <<s, p, env>>)

TermRest(s, acc, p, env) ==
    LET c == At(s, p)
        op == IF c = "/" /\ At(s, p + 1) = "/" THEN "//" ELSE c
    IN  IF c \notin {"*", "/", "%"} THEN PR(acc, p, "ok")
        ELSE LET r == Call("ParseFactor", <<s, p + Len(op), env>>)
             IN  IF r.st # "ok" THEN r ELSE Call("TermRest", <<s, Call("Bin", <<op, acc, r.v>>), r.p, env>>)

ParseTerm(s, p, env) ==
    LET r == Call("ParseFactor", <<s, p, env>>)
    IN  IF r.st # "ok" THEN r ELSE Call("TermRest", <<s, r.v, r.p, env>>)

ExprRest(s, acc, p, env) ==
    IF At(s, p) \notin {"+", "-"} THEN PR(acc, p, "ok")
    ELSE LET r == Call("ParseTerm", <<s, p + 1, env>>)
         IN  IF r.st # "ok" THEN r ELSE Call("ExprRest", <<s, Call("Bin", <<At(s, p), acc, r.v>>), r.p, env>>)

ParseExpr(s, p, env) ==
    LET r == Call("ParseTerm", <<s, p, env>>)
    IN  IF r.st # "ok" THEN r ELSE Call("ExprRest", <<s, r.v, r.p, env>>)

\* sp.sympify(text, locals=locals) with the Symbol x standing for xval
Sympify(text, locals, xval) ==
    LET r == Call("ParseExpr", <<text, 1, [locals |-> locals, xval |-> xval]>>)
        c == At(text, r.p)
    IN  IF r.st # "ok" THEN r.v
        ELSE IF r.p > Len(text) THEN r.v
        ELSE IF c \in {")", "(", "."} \cup NameChar THEN Raise("SympifyError")
        ELSE Beyond


\* ------------------------------------------------------ float(), round, str
\* Python's float(text).  The result is a dec (it keeps the sign of zero), nan
\* or an infinity; ValueError when the text is no float literal.
ParseFloat(s) ==
    LET signed == At(s, 1) \in {"+", "-"}
        neg == At(s, 1) = "-"
        body == IF signed THEN Tail(s) ELSE s
        cs == {body[i] : i \in DOMAIN body}
        dots == {i \in DOMAIN body : body[i] = "."}
        dot == IF dots = {} THEN Len(body) + 1 ELSE CHOOSE i \in dots : TRUE
        maybe == Digit \cup {".", "e", "E", "+", "-", "_", " "}
                 \cup {"i", "n", "f", "t", "y", "a", "I", "N", "F", "T", "Y", "A"}
    IN  IF body = NANTEXT THEN NaN
        ELSE IF body = INFTEXT THEN Inf(neg)
        ELSE IF cs = {} \/ ~(cs \subseteq maybe) THEN Raise("ValueError")
        ELSE IF cs \subseteq Digit \cup {"."}
        THEN IF Cardinality(dots) > 1 \/ cs = {"."} THEN Raise("ValueError")
             ELSE Dec(neg, ToDigitVals(Slice(body, 1, dot - 1)),
                      ToDigitVals(Slice(body, dot + 1, Len(body))), TRUE)
        ELSE IF cs \subseteq Digit \cup {".", "+", "-"} THEN Raise("ValueError")
        ELSE Beyond

\* str(round(v, 8)): the shortest text of the float nearest v to 8 places
RoundStr(v) ==
    LET t == Call("FormatDec", <<v.neg, v.id, v.fd, RoundDigits>>)
        body == IF v.neg THEN Tail(t) ELSE t
        ip == Slice(body, 1, Len(body) - RoundDigits - 1)
        fp == StripTrailingZeros(ToDigitVals(Slice(body, Len(body) - RoundDigits + 1, Len(body))))
        sig == StripLeadingZeros(fp)
        e == Len(fp) - Len(sig) + 1
        sign == IF v.neg THEN <<"-">> ELSE <<>>
    IN  CASE v.k = "nan" -> NANTEXT
          [] v.k = "oo" -> (IF v.neg THEN <<"-">> ELSE <<>>) \o INFTEXT
          [] v.k # "dec" \/ t = BEYONDTEXT \/ Len(ip) > 16 -> BEYONDTEXT
          [] ip = <<"0">> /\ fp # <<>> /\ e > 4 ->
                sign \o <<DigitChar(sig[1])>>
                \o (IF Len(sig) > 1 THEN <<".">> \o ToDigitChars(Tail(sig)) ELSE <<>>)
                \o <<"e", "-", "0", DigitChar(e)>>
          [] OTHER -> sign \o ip \o <<".">>
                      \o (IF fp = <<>> THEN <<"0">> ELSE ToDigitChars(fp))

\* n mod 180 for the natural number with the digits ds
RECURSIVE ModHalfTurn(_)
ModHalfTurn(ds) ==
    IF ds = <<>> THEN 0
    ELSE (10 * ModHalfTurn(Slice(ds, 1, Len(ds) - 1)) + ds[Len(ds)]) % HalfTurn

\* angle % 180 (Python's %, result in [0, 180)) as [j, f]: integer part and
\* fraction digits
AngleMod(v) ==
    LET j == ModHalfTurn(v.id)
    IN  IF ~v.neg THEN [j |-> j, f |-> v.fd]
        ELSE IF v.fd = <<>> THEN [j |-> (HalfTurn - j) % HalfTurn, f |-> <<>>]
        ELSE [j |-> HalfTurn - 1 - j, f |-> OneMinusFrac(v.fd)]

\* abs(angle % 180 - centre) < 1e-10 for centre 90 (_trig_tan) or 0 (_trig_cot):
\* "yes", "no", or "beyond" where the model does not know the float's rounding.
\* The float of a literal with up to three integer digits is within 1e-13 of
\* it, so only a decimal distance of exactly 1e-10 is decided by rounding;
\* EdgeTable holds what CPython answers there.
Within(f, v, centre) ==
    LET m == Call("AngleMod", <<v>>)
        head == Slice(m.f, 1, TolDigits)
        rest == Slice(m.f, TolDigits + 1, Len(m.f))
        one == Zeros(TolDigits - 1) \o <<1>>
        nines == [i \in 1..TolDigits |-> 9]
        rows == {i \in DOMAIN EdgeTable :
                    EdgeTable[i][1] = f /\ EdgeTable[i][2] = Call("CanonText", <<v>>)}
        edge == IF rows = {} THEN "beyond"
                ELSE IF EdgeTable[CHOOSE i \in rows : TRUE][3] THEN "yes" ELSE "no"
        above == \* m = centre + 0.f
            IF AllZero(head) THEN "yes"
            ELSE IF head = one /\ rest = <<>> THEN edge ELSE "no"
        below == \* m = centre - 1 + 0.f
            IF head = nines THEN (IF rest = <<>> THEN edge ELSE "yes") ELSE "no"
    IN  IF v.k \in {"nan", "oo"} THEN "no"
        ELSE IF v.k # "dec" THEN "beyond"
        ELSE IF Len(v.id) > 15 THEN "beyond"
        ELSE IF v.fd = <<>> THEN (IF m.j = centre THEN "yes" ELSE "no")
        ELSE IF Len(v.id) > 3 \/ Len(v.fd) > TolDigits + 2 THEN "beyond"
        ELSE IF m.j = centre THEN above
        ELSE IF m.j = centre - 1 THEN below
        ELSE "no"

\* math.f(math.radians(angle)) of the trigonometric buttons
MathTrig(f, v) ==
    CASE v.k = "nan" -> NaN
      [] v.k = "oo" -> Raise("ValueError")
      [] v.k = "dec" -> Call("Lookup", <<DegTable, f, v>>)
      [] OTHER -> Beyond
\* math.log10(value) (f = "log10") and math.log(value) (f = "ln")
MathLog(f, v) ==
    CASE v.k = "nan" -> NaN
      [] v.k = "oo" -> IF v.neg THEN Raise("ValueError") ELSE Inf(FALSE)
      [] v.k = "dec" -> IF IsPositive(v) THEN Call("Lookup", <<UiTable, f, v>>) ELSE Raise("ValueError")
      [] OTHER -> Beyond
\* math.exp(value)
MathExp(v) ==
    CASE v.k = "nan" -> NaN
      [] v.k = "oo" -> IF v.neg THEN Dec(FALSE, <<>>, <<>>, TRUE) ELSE Inf(FALSE)
      [] v.k = "dec" -> Call("Lookup", <<UiTable, "exp_ui", v>>)
      [] OTHER -> Beyond


\* ---------------------------------------------------------- safe_evaluate
RECURSIVE ReplaceLn(_)
\* expression.replace('ln(', 'log(')
ReplaceLn(s) ==
    IF s = <<>> THEN <<>>
    ELSE IF StartsWith(s, <<"l", "n", "(">>) THEN <<"l", "o", "g", "(">> \o ReplaceLn(DropFirst(s, 3))
    ELSE <<Head(s)>> \o ReplaceLn(Tail(s))

\* float(expr.evalf())
FloatOf(v) ==
    CASE v.k \in {"raise", "beyond", "num", "dec", "nan", "oo"} -> v
      [] v.k \in {"zoo", "cplx", "sym"} -> Raise("TypeError")
      [] v.k = "obj" -> Raise("TypeError")
      [] OTHER -> Beyond

\* the classes "except Exception" catches: every exception the model raises
ExceptionClasses ==
    {"SympifyError", "TypeError", "ValueError", "ZeroDivisionError", "OverflowError",
     "NameError"}

\* MathExpressionEvaluator.safe_evaluate(expression, precision): the display
\* text it returns (BEYONDTEXT outside the model's bounds)
safe_evaluate(expression, precision) ==
    LET result == FloatOf(Call("Sympify", <<ReplaceLn(expression), CalcFunctions, Sym(TRUE, FALSE)>>))
    IN  IF result.k = "raise"
        THEN (IF result.exc \in ExceptionClasses THEN ERROR ELSE BEYONDTEXT)
        ELSE IF result.k = "beyond" THEN BEYONDTEXT
        ELSE Call("Format", <<result, precision>>)

\* ------------------------------------------------------- button handlers
(***************************************************************************)
(* What a handler does to the buffer buf: [ok, buf, disp], the new         *)
(* calc_operator and the text it sets on the display; ok is FALSE outside  *)
(* the bounds of the model.                                                *)
(***************************************************************************)
Outcome(buf, disp) == [ok |-> buf # BEYONDTEXT /\ disp # BEYONDTEXT, buf |-> buf, disp |-> disp]
OutOfModel == [ok |-> FALSE, buf |-> BEYONDTEXT, disp |-> BEYONDTEXT]

\* A faulty handler that assigns "ERROR" to calc_operator in its except
\* branch: C12_FailureFrame must tell it from MathOutcome.
MathOutcomeOverwrites(buf, y) ==
    IF y.k = "beyond" THEN OutOfModel
    ELSE IF y.k = "raise" THEN Outcome(ERROR, ERROR)
    ELSE Outcome(Call("RoundStr", <<y>>), Call("RoundStr", <<y>>))

\* the common shape of _trig_sin, _trig_cos, _log_base_10, _ln, _exp_func:
\* y is math.f(float(buf)) or the exception raised on the way
MathOutcome(buf, y) ==
    IF y.k = "beyond" THEN OutOfModel
    ELSE IF y.k = "raise" THEN Outcome(buf, ERROR)
    ELSE Outcome(Call("RoundStr", <<y>>), Call("RoundStr", <<y>>))

SinOutcome(buf) ==
    LET angle == Call("ParseFloat", <<buf>>)
    IN  Call("MathOutcome", <<buf, IF Stops(angle) THEN angle ELSE Call("MathTrig", <<"sin", angle>>)>>)
CosOutcome(buf) ==
    LET angle == Call("ParseFloat", <<buf>>)
    IN  Call("MathOutcome", <<buf, IF Stops(angle) THEN angle ELSE Call("MathTrig", <<"cos", angle>>)>>)
\* A faulty _trig_tan that compares angle % 180 with 0, as _trig_cot does:
\* C4_TanTolerance must tell it from TanOutcome.
TanOutcomeCentreZero(buf) ==
    LET angle == Call("ParseFloat", <<buf>>)
        near == Call("Within", <<"cot", angle, 0>>)
    IN  IF Stops(angle) THEN Call("MathOutcome", <<buf, angle>>)
        ELSE IF near = "beyond" THEN OutOfModel
        ELSE IF near = "yes" THEN Outcome(<<>>, UNDEFINED)
        ELSE Call("MathOutcome", <<buf, Call("MathTrig", <<"tan", angle>>)>>)
TanOutcome(buf) ==
    LET angle == Call("ParseFloat", <<buf>>)
        near == Call("Within", <<"tan", angle, QuarterTurn>>)
    IN  IF Stops(angle) THEN Call("MathOutcome", <<buf, angle>>)
        ELSE IF near = "beyond" THEN OutOfModel
        ELSE IF near = "yes" THEN Outcome(<<>>, UNDEFINED)
        ELSE Call("MathOutcome", <<buf, Call("MathTrig", <<"tan", angle>>)>>)
\* A faulty _trig_cot that shows "UNDEFINED" and leaves the angle in
\* calc_operator: C13_UndefinedResetsBuffer must tell it from CotOutcome.
CotOutcomeKeepsAngle(buf) ==
    LET angle == Call("ParseFloat", <<buf>>)
        near == Call("Within", <<"cot", angle, 0>>)
    IN  IF Stops(angle) THEN Call("MathOutcome", <<buf, angle>>)
        ELSE IF near = "beyond" THEN OutOfModel
        ELSE IF near = "yes" THEN Outcome(buf, UNDEFINED)
        ELSE Call("MathOutcome", <<buf, Call("MathTrig", <<"cot", angle>>)>>)
CotOutcome(buf) ==
    LET angle == Call("ParseFloat", <<buf>>)
        near == Call("Within", <<"cot", angle, 0>>)
    IN  IF Stops(angle) THEN Call("MathOutcome", <<buf, angle>>)
        ELSE IF near = "beyond" THEN OutOfModel
        ELSE IF near = "yes" THEN Outcome(<<>>, UNDEFINED)
        ELSE Call("MathOutcome", <<buf, Call("MathTrig", <<"cot", angle>>)>>)
Log10Outcome(buf) ==
    LET value == Call("ParseFloat", <<buf>>)
    IN  Call("MathOutcome", <<buf, IF Stops(value) THEN value ELSE Call("MathLog", <<"log10", value>>)>>)
LnOutcome(buf) ==
    LET value == Call("ParseFloat", <<buf>>)
    IN  Call("MathOutcome", <<buf, IF Stops(value) THEN value ELSE Call("MathLog", <<"ln", value>>)>>)
ExpOutcome(buf) ==
    LET value == Call("ParseFloat", <<buf>>)
    IN  Call("MathOutcome", <<buf, IF Stops(value) THEN value ELSE Call("MathExp", <<value>>)>>)

\* A faulty _square_root whose else branch shows "UNDEFINED":
\* C3_FailuresShowError must tell it from SqrtOutcome.
SqrtOutcomeUndefined(buf) ==
    LET value == Call("ParseFloat", <<buf>>)
        result == Call("safe_evaluate", <<<<"s", "q", "r", "t", "(">> \o buf \o <<")">>, DefaultPrecision>>)
    IN  IF value.k = "beyond" THEN OutOfModel
        ELSE IF value.k = "raise" THEN Outcome(buf, ERROR)
        ELSE IF value.k # "nan" /\ ~IsNegative(value) /\ ~(value.k = "oo" /\ value.neg)
        THEN Outcome(result, result)
        ELSE Outcome(buf, UNDEFINED)

\* the handlers that go through safe_evaluate; none passes a precision
SqrtOutcome(buf) ==
    LET value == Call("ParseFloat", <<buf>>)
        result == Call("safe_evaluate", <<<<"s", "q", "r", "t", "(">> \o buf \o <<")">>, DefaultPrecision>>)
    IN  IF value.k = "beyond" THEN OutOfModel
        ELSE IF value.k = "raise" THEN Outcome(buf, ERROR)
        ELSE IF value.k # "nan" /\ ~IsNegative(value) /\ ~(value.k = "oo" /\ value.neg)
        THEN Outcome(result, result)
        ELSE Outcome(buf, ERROR)
ThirdRootOutcome(buf) ==
    LET result == Call("safe_evaluate", <<<<"(">> \o buf \o <<")", "*", "*", "(", "1", "/", "3", ")">>,
                                DefaultPrecision>>)
    IN  Outcome(result, result)
PercentOutcome(buf) ==
    LET result == Call("safe_evaluate", <<buf \o <<"/", "1", "0", "0">>, DefaultPrecision>>)
    IN  Outcome(result, result)
FactOutcome(buf) ==
    LET result == Call("safe_evaluate", <<<<"f", "a", "c", "t", "o", "r", "i", "a", "l", "(">> \o buf \o <<")">>,
                                DefaultPrecision>>)
    IN  Outcome(result, result)
\* A faulty _sign_change that prepends '-' whatever the buffer starts with:
\* C14_SignToggles must tell it from SignChangeOutcome.
SignChangeAlwaysPrepends(buf) ==
    LET result == <<"-">> \o buf
    IN  Outcome(result, result)
SignChangeOutcome(buf) ==
    LET result == IF buf # <<>> /\ buf[1] = "-" THEN Tail(buf) ELSE <<"-">> \o buf
    IN  Outcome(result, result)
\* A faulty _button_equal that sets the display and forgets to assign
\* calc_operator: C11_DisplayShowsBuffer must tell it from EqualOutcome.
EqualOutcomeKeepsBuffer(buf, precision) ==
    LET result == Call("safe_evaluate", <<buf, precision>>)
    IN  Outcome(buf, result)
EqualOutcome(buf, precision) ==
    LET result == Call("safe_evaluate", <<buf, precision>>)
    IN  Outcome(result, result)


\* ----------------------------------------------------------- plot_function
\* the i-th point of np.linspace(-10, 10, 400), i = 0 .. 399
LinspacePoint(i) ==
    Num(LinspaceLo * (NPoints - 1) + (LinspaceHi - LinspaceLo) * i, NPoints - 1, TRUE)

\* y[i] of y = f(x): what the numpy function computes at the i-th point
\* ("y" a finite float, "nan", "inf"), or "beyond"
SampleAt(expression, i) ==
    LET v == Call("Sympify", <<expression, PlotFunctions, WithX(LinspacePoint(i), TRUE)>>)
    IN  CASE v.k \in {"num", "dec", "real"} -> "y"
          [] v.k = "nan" -> "nan"
          [] v.k = "oo" -> "inf"
          [] OTHER -> "beyond"

Curve(expression, ys) == [status |-> "curve", expression |-> expression, ys |-> ys]
PlotError(expression) == [status |-> "error", expression |-> expression, ys |-> <<>>]
PlotBeyond == [status |-> "beyond", expression |-> <<>>, ys |-> <<>>]

\* GraphPlotter.plot_function(expression): what the axes show afterwards.
\* A curve has one y per point of x (ax.plot raises ValueError otherwise, which
\* happens when the lambdified function returns a scalar).
plot_function(expression) ==
    LET expr == Call("Sympify", <<expression, PlotFunctions, Sym(TRUE, FALSE)>>)
        ys == [i \in 1..NPoints |-> Call("SampleAt", <<expression, i - 1>>)]
    IN  CASE expr.k = "beyond" -> PlotBeyond
          [] expr.k = "raise" -> PlotError(expression)
          [] expr.k = "sym" ->
                IF expr.un THEN PlotError(expression)
                ELSE IF \E i \in 1..NPoints : ys[i] = "beyond" THEN PlotBeyond
                ELSE Curve(expression, ys)
          [] expr.k \in {"num", "dec", "nan", "oo", "zoo", "cplx"} -> PlotError(expression)
          [] OTHER -> PlotBeyond


\* ------------------------------------------------------------------ Call
\* The call f(args) of one of the operators above.
Call(f, args) ==
    CASE f = "FormatNum" -> FormatNum(args[1], args[2], args[3])
      [] f = "FormatDec" -> FormatDec(args[1], args[2], args[3], args[4])
      [] f = "Format" -> Format(args[1], args[2])
      [] f = "CanonText" -> CanonText(args[1])
      [] f = "Lookup" -> Lookup(args[1], args[2], args[3])
      [] f = "LiteralValue" -> LiteralValue(args[1], args[2], args[3])
      [] f = "IntPow" -> IntPow(args[1], args[2], args[3])
      [] f = "PowNum" -> PowNum(args[1], args[2], args[3])
      [] f = "NumBin" -> NumBin(args[1], args[2], args[3], args[4])
      [] f = "SpBin" -> SpBin(args[1], args[2], args[3])
      [] f = "NpBin" -> NpBin(args[1], args[2], args[3])
      [] f = "SymBin" -> SymBin(args[1], args[2], args[3])
      [] f = "Bin" -> Bin(args[1], args[2], args[3])
      [] f = "SpApply" -> SpApply(args[1], args[2])
      [] f = "NpApply" -> NpApply(args[1], args[2])
      [] f = "Apply" -> Apply(args[1], args[2])
      [] f = "ConstValue" -> ConstValue(args[1])
      [] f = "Resolve" -> Resolve(args[1], args[2], args[3], args[4])
      [] f = "ParseNumber" -> ParseNumber(args[1], args[2])
      [] f = "ParseName" -> ParseName(args[1], args[2], args[3])
      [] f = "ParseAtom" -> ParseAtom(args[1], args[2], args[3])
      [] f = "Trailers" -> Trailers(args[1], args[2], args[3], args[4])
      [] f = "ParsePower" -> ParsePower(args[1], args[2], args[3])
      [] f = "ParseFactor" -> ParseFactor(args[1], args[2], args[3])
      [] f = "TermRest" -> TermRest(args[1], args[2], args[3], args[4])
      [] f = "ParseTerm" -> ParseTerm(args[1], args[2], args[3])
      [] f = "ExprRest" -> ExprRest(args[1], args[2], args[3], args[4])
      [] f = "ParseExpr" -> ParseExpr(args[1], args[2], args[3])
      [] f = "Sympify" -> Sympify(args[1], args[2], args[3])
      [] f = "ParseFloat" -> ParseFloat(args[1])
      [] f = "RoundStr" -> RoundStr(args[1])
      [] f = "AngleMod" -> AngleMod(args[1])
      [] f = "Within" -> Within(args[1], args[2], args[3])
      [] f = "MathTrig" -> MathTrig(args[1], args[2])
      [] f = "MathLog" -> MathLog(args[1], args[2])
      [] f = "MathExp" -> MathExp(args[1])
      [] f = "safe_evaluate" -> safe_evaluate(args[1], args[2])
      [] f = "MathOutcome" -> MathOutcome(args[1], args[2])
      [] f = "SinOutcome" -> SinOutcome(args[1])
      [] f = "CosOutcome" -> CosOutcome(args[1])
      [] f = "TanOutcome" -> TanOutcome(args[1])
      [] f = "CotOutcome" -> CotOutcome(args[1])
      [] f = "Log10Outcome" -> Log10Outcome(args[1])
      [] f = "LnOutcome" -> LnOutcome(args[1])
      [] f = "ExpOutcome" -> ExpOutcome(args[1])
      [] f = "SqrtOutcome" -> SqrtOutcome(args[1])
      [] f = "ThirdRootOutcome" -> ThirdRootOutcome(args[1])
      [] f = "PercentOutcome" -> PercentOutcome(args[1])
      [] f = "FactOutcome" -> FactOutcome(args[1])
      [] f = "SignChangeOutcome" -> SignChangeOutcome(args[1])
      [] f = "EqualOutcome" -> EqualOutcome(args[1], args[2])
      [] f = "SampleAt" -> SampleAt(args[1], args[2])
      [] f = "plot_function" -> plot_function(args[1])

\* ------------------------------------------------------------------ state
Precisions == {0, 2, DefaultPrecision}

VARIABLES
    calc_operator,   \* ScientificCalculatorApp.calc_operator: the expression buffer
    text_input,      \* the StringVar the display shows
    config,          \* ScientificCalculatorConfig: [precision, angle_mode]
    last_op,         \* the handler that ran last
    prev,            \* calc_operator before it ran
    shown,           \* the display before it ran
    expression,      \* the text of the last direct call of safe_evaluate
    eval_precision,  \* its precision argument
    result,          \* what it returned
    graph_input,     \* the text of the plot entry
    plot             \* what the axes show: [status, expression, ys]

vars == <<calc_operator, text_input, config, last_op, prev, shown, expression,
          eval_precision, result, graph_input, plot>>
calcVars == <<calc_operator, text_input, prev, shown>>
evalVars == <<expression, eval_precision, result>>
plotVars == <<graph_input, plot>>

\* ScientificCalculatorConfig() as ScientificCalculatorApp.__init__ builds it
DefaultConfig == [precision |-> DefaultPrecision, angle_mode |-> "degrees"]
NoPlot == [status |-> "none", expression |-> <<>>, ys |-> <<>>]

\* The application after construction, with nothing evaluated or plotted.
Constructed ==
    /\ config = DefaultConfig
    /\ last_op = "init"
    /\ prev = <<>>
    /\ shown = <<>>
    /\ expression = <<>>
    /\ eval_precision = DefaultPrecision
    /\ result = <<>>
    /\ plot = NoPlot

\* A session starts with a buffer the buttons have produced; the display shows it.
Init ==
    /\ Constructed
    /\ calc_operator \in InitialBuffers
    /\ text_input = calc_operator
    /\ graph_input = <<>>

\* a handler leaves buf in calc_operator and disp on the display; o is what
\* the handler computes from the buffer, computed once
Press(op, o) ==
    /\ calc_operator' = o.buf
    /\ text_input' = o.disp
    /\ last_op' = op
    /\ prev' = calc_operator
    /\ shown' = text_input
    /\ UNCHANGED <<config, evalVars, plotVars>>

\* a character is appended to a buffer shorter than MaxLen, and to "ERROR"
_button_click(char) ==
    /\ Len(calc_operator) < MaxLen \/ calc_operator = ERROR
    /\ Press("click", Outcome(calc_operator \o char, calc_operator \o char))
_button_clear_all ==
    /\ calc_operator' = <<>>
    /\ text_input' = <<>>
    /\ last_op' = "clear_all"
    /\ prev' = calc_operator
    /\ shown' = text_input
    /\ UNCHANGED <<config, evalVars, plotVars>>
_button_delete ==
    /\ Len(calc_operator) <= MaxLen
    /\ Press("delete", Outcome(Slice(calc_operator, 1, Len(calc_operator) - 1),
                               Slice(calc_operator, 1, Len(calc_operator) - 1)))
_button_equal ==
    \E o \in {Call("EqualOutcome", <<calc_operator, config.precision>>)} :
        /\ o.ok
        /\ Press("equal", o)
_trig_sin ==
    \E o \in {Call("SinOutcome", <<calc_operator>>)} :
        /\ o.ok
        /\ Press("sin", o)
_trig_cos ==
    \E o \in {Call("CosOutcome", <<calc_operator>>)} :
        /\ o.ok
        /\ Press("cos", o)
_trig_tan ==
    \E o \in {Call("TanOutcome", <<calc_operator>>)} :
        /\ o.ok
        /\ Press("tan", o)
_trig_cot ==
    \E o \in {Call("CotOutcome", <<calc_operator>>)} :
        /\ o.ok
        /\ Press("cot", o)
_square_root ==
    \E o \in {Call("SqrtOutcome", <<calc_operator>>)} :
        /\ o.ok
        /\ Press("sqrt", o)
_log_base_10 ==
    \E o \in {Call("Log10Outcome", <<calc_operator>>)} :
        /\ o.ok
        /\ Press("log10", o)
_ln ==
    \E o \in {Call("LnOutcome", <<calc_operator>>)} :
        /\ o.ok
        /\ Press("ln", o)
_exp_func ==
    \E o \in {Call("ExpOutcome", <<calc_operator>>)} :
        /\ o.ok
        /\ Press("exp", o)
_third_root ==
    \E o \in {Call("ThirdRootOutcome", <<calc_operator>>)} :
        /\ o.ok
        /\ Press("cbrt", o)
_sign_change ==
    /\ Len(calc_operator) <= MaxLen
    /\ Press("sign", Call("SignChangeOutcome", <<calc_operator>>))
_percent ==
    \E o \in {Call("PercentOutcome", <<calc_operator>>)} :
        /\ o.ok
        /\ Press("percent", o)
_fact_func ==
    \E o \in {Call("FactOutcome", <<calc_operator>>)} :
        /\ o.ok
        /\ Press("fact", o)

Next ==
    \/ \E char \in ClickStrings : _button_click(char)
    \/ _button_clear_all
    \/ _button_delete
    \/ _button_equal
    \/ _trig_sin
    \/ _trig_cos
    \/ _trig_tan
    \/ _trig_cot
    \/ _square_root
    \/ _log_base_10
    \/ _ln
    \/ _exp_func
    \/ _third_root
    \/ _sign_change
    \/ _percent
    \/ _fact_func

Spec == Init /\ [][Next]_vars

\* ---------------------------------------------- safe_evaluate called directly
InitEval ==
    /\ Constructed
    /\ calc_operator = <<>>
    /\ text_input = <<>>
    /\ graph_input = <<>>

Evaluate(e, p) ==
    /\ Call("safe_evaluate", <<e, p>>) # BEYONDTEXT
    /\ expression' = e
    /\ eval_precision' = p
    /\ result' = Call("safe_evaluate", <<e, p>>)
    /\ last_op' = "safe_evaluate"
    /\ UNCHANGED <<calcVars, config, plotVars>>

NextEval == \E e \in EvalTexts, p \in Precisions : Evaluate(e, p)

SpecEval == InitEval /\ [][NextEval]_vars

\* ------------------------------------------------------------ the plot frame
InitPlot ==
    /\ Constructed
    /\ calc_operator = <<>>
    /\ text_input = <<>>
    /\ graph_input \in PlotTexts

\* a key typed at the end of the plot entry
GraphKey(c) ==
    /\ Len(graph_input) < MaxLen
    /\ graph_input' = graph_input \o c
    /\ last_op' = "key"
    /\ UNCHANGED <<calcVars, config, evalVars, plot>>

_plot_graph ==
    /\ Call("plot_function", <<graph_input>>).status # "beyond"
    /\ plot' = Call("plot_function", <<graph_input>>)
    /\ last_op' = "plot"
    /\ UNCHANGED <<calcVars, config, evalVars, graph_input>>

NextPlot ==
    \/ \E c \in GraphKeys : GraphKey(c)
    \/ _plot_graph

SpecPlot == InitPlot /\ [][NextPlot]_vars


\* ----------------------------------------------------------------- claims
\* t is a decimal numeral: float(t) is a finite number written without exponent
IsNumeral(t) == Call("ParseFloat", <<t>>).k = "dec"
\* t is the text of a finite float as str() or a format writes it
IsFiniteText(t) ==
    /\ \E i \in DOMAIN t : t[i] \in Digit
    /\ \A i \in DOMAIN t : t[i] \in Digit \cup {".", "-", "+", "e"}
\* t is in fixed-point form with exactly p fractional digits
IsFixedPoint(t, p) ==
    LET body == IF At(t, 1) = "-" THEN Tail(t) ELSE t
        n == Len(body) - (IF p = 0 THEN 0 ELSE p + 1)
    IN  /\ n >= 1
        /\ \A i \in 1..n : body[i] \in Digit
        /\ p > 0 => body[n + 1] = "." /\ \A i \in (n + 2)..Len(body) : body[i] \in Digit
\* the handlers that display what safe_evaluate returns
EvaluationOps == {"equal", "percent", "fact", "cbrt", "sqrt"}
\* the handlers that put a numeric result on the display
NumericOps == EvaluationOps \cup {"sin", "cos", "tan", "cot", "log10", "ln", "exp"}

\* the identifiers of an expression text
RECURSIVE Identifiers(_)
Identifiers(s) ==
    IF s = <<>> THEN {}
    ELSE IF Head(s) \in NameStart
    THEN LET e == SkipWhile(s, 1, NameChar)
         IN  {Join(Slice(s, 1, e - 1))} \cup Identifiers(DropFirst(s, e - 1))
    ELSE IF Head(s) \in Digit \cup {"."}
    THEN Identifiers(DropFirst(s, SkipWhile(s, 1, Digit \cup {"."}) - 1))
    ELSE Identifiers(Tail(s))
\* the allow-list of the specification
AllowList == {"abs", "sin", "cos", "tan", "cot", "log", "ln", "exp", "sqrt",
              "factorial", "pi", "e", "x"}

\* C1: whatever text the buffer holds, '=' and the %, x!, cube-root and
\* square-root buttons leave on the display a formatted number, "ERROR" or
\* "UNDEFINED".
C1_DisplayString ==
    last_op \in EvaluationOps =>
        IsNumeral(text_input) \/ text_input \in {ERROR, UNDEFINED}

\* C2: safe_evaluate rejects every expression that contains an identifier
\* outside the allow-list: it returns "ERROR" and no value.
C2_AllowListOnly ==
    (last_op = "safe_evaluate" /\ ~(Identifiers(expression) \subseteq AllowList))
        => result = ERROR

NearTurn(v, centre) ==
    LET n == (IF v.neg THEN -1 ELSE 1) * DigitsToNat(v.id)
        up == IF v.neg THEN n - 1 ELSE n + 1
        head == Slice(v.fd \o Zeros(TolDigits), 1, TolDigits)
        rest == Slice(v.fd, TolDigits + 1, Len(v.fd))
    IN  \/ AllZero(head) /\ (n - centre) % HalfTurn = 0
        \/ /\ \A i \in 1..TolDigits : head[i] = 9
           /\ rest # <<>>
           /\ (up - centre) % HalfTurn = 0
\* v is exactly 1e-10 away from centre + 180 k
AtTolerance(v, centre) ==
    LET n == (IF v.neg THEN -1 ELSE 1) * DigitsToNat(v.id)
        up == IF v.neg THEN n - 1 ELSE n + 1
    IN  \/ v.fd = Zeros(TolDigits - 1) \o <<1>> /\ (n - centre) % HalfTurn = 0
        \/ v.fd = [i \in 1..TolDigits |-> 9] /\ (up - centre) % HalfTurn = 0
\* v is farther than 1e-10 from every centre + 180 k
FarFromTurn(v, centre) == ~NearTurn(v, centre) /\ ~AtTolerance(v, centre)

C5_CotBothSides ==
    LET angle == Call("ParseFloat", <<prev>>)
    IN  (last_op = "cot" /\ angle.k = "dec" /\ NearTurn(angle, 0)) =>
            text_input = UNDEFINED


\* the text e read as the call f(arg) of one function on a decimal numeral
CallOf(e) ==
    LET open == SkipWhile(e, 1, NameChar)
    IN  [f |-> Join(Slice(e, 1, open - 1)),
         arg |-> Slice(e, open + 1, Len(e) - 1),
         ok |-> At(e, open) = "(" /\ At(e, Len(e)) = ")"
                /\ IsNumeral(Slice(e, open + 1, Len(e) - 1))]

\* C6: with the default angle mode (degrees), sin, cos and tan of a number
\* evaluated by safe_evaluate are the functions of the angle in degrees, as on
\* the trig buttons: the result is math.f(math.radians(arg)) at the precision
\* asked for.
C6_DegreesOnEveryPath ==
    LET c == CallOf(expression)
        deg == Call("MathTrig", <<c.f, Call("ParseFloat", <<c.arg>>)>>)
    IN  (last_op = "safe_evaluate" /\ config.angle_mode = "degrees" /\ c.ok
            /\ c.f \in {"sin", "cos", "tan"} /\ deg.k = "dec")
        => result = Call("Format", <<deg, eval_precision>>)

\* C7: the x! button gives n! for a non-negative integer n and no number for
\* a negative or a non-integer value.
C7_FactorialDomain ==
    LET value == Call("ParseFloat", <<prev>>)
    IN  (last_op = "fact" /\ value.k = "dec") =>
            /\ (IsNegative(value) \/ value.fd # <<>>) => ~IsNumeral(text_input)
            /\ prev = <<"5">> => text_input = <<"1", "2", "0">> \o <<".">> \o
                                              ToDigitChars(Zeros(config.precision))

\* the text is an expression in x alone: sympify accepts it and every name in
\* it is defined
Parseable(e) ==
    LET expr == Call("Sympify", <<e, PlotFunctions, Sym(TRUE, FALSE)>>)
    IN  expr.k \in {"num", "dec"} \/ (expr.k = "sym" /\ ~expr.un)

\* C8: plotting a parseable expression, whether or not it depends on x,
\* samples it at each of the 400 points: the curve has one y per point.
C8_OneSamplePerPoint ==
    (last_op = "plot" /\ Parseable(plot.expression)) =>
        plot.status = "curve" /\ Len(plot.ys) = NPoints

\* C9: when '=' has left a number in the buffer, evaluating the buffer again
\* with the same precision gives the same text.
C9_RoundTrip ==
    LET again == Call("safe_evaluate", <<calc_operator, config.precision>>)
    IN  (last_op = "equal" /\ IsNumeral(calc_operator) /\ again # BEYONDTEXT)
            => again = calc_operator

\* C10: every handler that puts a number on the display writes it in
\* fixed-point form with exactly config.precision fractional digits.
C10_FixedPrecision ==
    (last_op \in NumericOps /\ text_input \notin {ERROR, UNDEFINED, NANTEXT, INFTEXT})
        => IsFixedPoint(text_input, config.precision)


\* the handlers that end with text_input.set(self.calc_operator) or set both
\* to the same text on every path
MirrorOps == {"click", "delete", "clear_all", "sign", "equal"}

\* C11: the display shows the buffer calc_operator, or "ERROR" or "UNDEFINED";
\* after a character button, DEL, AC, the sign button or '=' it shows the
\* buffer.
C11_DisplayShowsBuffer ==
    /\ text_input = calc_operator \/ text_input \in {ERROR, UNDEFINED}
    /\ last_op \in MirrorOps => text_input = calc_operator
\* a handler failed after some buttons and the display shows "ERROR" over a
\* buffer that holds another text
C11_ErrorOverBuffer ==
    /\ last_op \in NumericOps \ MirrorOps
    /\ text_input = ERROR
    /\ calc_operator \notin {ERROR, <<>>}
    /\ calc_operator \notin InitialBuffers


\* the handlers that begin with float(self.calc_operator)
FloatFirstOps == {"sin", "cos", "tan", "cot", "log10", "ln", "exp", "sqrt"}
\* the handlers that assign what safe_evaluate returns without looking at it
OverwritingOps == {"equal", "percent", "fact", "cbrt"}

\* C12 (as the code has it): when a handler that begins with float(buffer)
\* fails because the buffer is no number or the value is outside the domain
\* of the function, it shows "ERROR" and leaves calc_operator as it was; so
\* does every failure of sin, cos, tan, cot, log10, ln and e^x.  The square
\* root of a buffer float() accepts as a non-negative number is whatever
\* safe_evaluate returns, "ERROR" included, and then "ERROR" is in
\* calc_operator.  A failing '=', percent, factorial or cube root leaves
\* "ERROR" in calc_operator, and the next character button appends to it.
C12_FailureFrame ==
    LET value == Call("ParseFloat", <<prev>>)
        kept == text_input = ERROR /\ calc_operator = prev
    IN  /\ (last_op \in FloatFirstOps /\ value.k = "raise") => kept
        /\ (last_op \in FloatFirstOps \ {"sqrt"} /\ text_input = ERROR)
               => calc_operator = prev
        /\ (last_op = "sqrt" /\ (IsNegative(value) \/ value.k = "nan")) => kept
        /\ (last_op = "sqrt" /\ value.k = "dec" /\ ~IsNegative(value)
                /\ text_input = ERROR)
               => calc_operator = ERROR
        /\ (last_op \in {"log10", "ln"} /\ value.k = "dec" /\ ~IsPositive(value))
               => kept
        /\ (last_op \in OverwritingOps /\ text_input = ERROR) => calc_operator = ERROR
        /\ (last_op = "click" /\ prev = ERROR)
               => /\ Len(calc_operator) = Len(ERROR) + 1
                  /\ StartsWith(calc_operator, ERROR)
                  /\ text_input = calc_operator
\* C12 as the specification words it: whenever one of the handlers that
\* begin with float(buffer) shows "ERROR", calc_operator is as it was
C12_FailureKeepsBuffer ==
    (last_op \in FloatFirstOps /\ text_input = ERROR) => calc_operator = prev
\* a character button was pressed on the buffer "ERROR" a failed evaluation left
C12_AppendedToError ==
    /\ last_op = "click"
    /\ prev = ERROR
    /\ StartsWith(calc_operator, ERROR)
    /\ calc_operator # ERROR


\* the angle in the buffer passes the tolerance test of the handler op
InTolerance(op, buf) ==
    LET angle == Call("ParseFloat", <<buf>>)
    IN  /\ angle.k = "dec"
        /\ Call("Within", <<op, angle, IF op = "tan" THEN QuarterTurn ELSE 0>>) = "yes"

\* C13: tan or cot on an angle inside its tolerance shows "UNDEFINED" and
\* empties calc_operator, and the character button pressed next leaves that
\* character alone in the buffer and on the display.
C13_UndefinedResetsBuffer ==
    [][/\ \A op \in {"tan", "cot"} :
              (last_op' = op /\ InTolerance(op, calc_operator))
                  => text_input' = UNDEFINED /\ calc_operator' = <<>>
       /\ (last_op' \in {"tan", "cot"} /\ text_input' = UNDEFINED)
              => calc_operator' = <<>>
       /\ (last_op \in {"tan", "cot"} /\ text_input = UNDEFINED /\ last_op' = "click")
              => calc_operator' \in ClickStrings /\ text_input' = calc_operator'
      ]_vars
\* cot was pressed on an angle inside its tolerance
C13_CotUndefined ==
    /\ last_op = "cot"
    /\ InTolerance("cot", prev)
    /\ text_input = UNDEFINED
    /\ calc_operator = <<>>


\* the buffer with one leading '-' removed, or with a '-' put in front
Toggled(buf) == IF At(buf, 1) = "-" THEN Tail(buf) ELSE <<"-">> \o buf
TwoMinus == <<"-", "-">>
\* two presses of the sign button in a row: the first has been made, the
\* second is this step
SignTwice == last_op = "sign" /\ last_op' = "sign"

\* C14 (as the code has it): the sign button removes the first character of
\* a buffer that starts with '-' and puts '-' before any other buffer, and
\* shows the new buffer.  Two presses in a row restore the buffer unless it
\* starts with "--", and the display shows the restored buffer; a buffer that
\* starts with "--" loses one '-' per press.
C14_SignToggles ==
    [][/\ last_op' = "sign" =>
              calc_operator' = Toggled(calc_operator) /\ text_input' = calc_operator'
       /\ (SignTwice /\ ~StartsWith(prev, TwoMinus)) =>
              calc_operator' = prev /\ text_input' = prev
       /\ (SignTwice /\ StartsWith(prev, TwoMinus)) =>
              calc_operator' = DropFirst(prev, 2) /\ text_input' = calc_operator'
      ]_vars
\* the sign button was pressed on a buffer that starts with "--"
C14_LostOneMinus ==
    /\ last_op = "sign"
    /\ StartsWith(prev, TwoMinus)
    /\ calc_operator = Tail(prev)
    /\ text_input = calc_operator
\* C14 as the specification words it: two presses in a row restore the
\* buffer and the display, unless the buffer starts with "--"
C14_TwiceRestoresDisplay ==
    [][(SignTwice /\ ~StartsWith(prev, TwoMinus)) =>
           calc_operator' = prev /\ text_input' = shown]_vars


====
